---- MODULE Spec2Model ----
(***************************************************************************)
(* dbdrill: a model of the typed resource/link query engine.               *)
(*                                                                         *)
(*   - the resource catalog and its load-time validation (src/model.rs)    *)
(*   - value coercion, text and JSON to bound parameters (src/to_sql.rs,   *)
(*     src/json_helpers.rs) and cell decoding (src/sql_value_as_string.rs) *)
(*   - the query executor and the link resolver (src/tui.rs)               *)
(*                                                                         *)
(* Strings the code inspects character by character are sequences of       *)
(* one-character strings; Option<T> is a sequence of length 0 or 1.        *)
(***************************************************************************)
EXTENDS Integers, Sequences, FiniteSets, TLC

VARIABLES
    resources,   \* HashMap<String, Resource>: the configuration / AppData.resources
    vresult,     \* what validate_resources returned for `resources`
    cinput,      \* the arguments of the coercion under evaluation
    coutput,     \* what the coercion returned
    history,     \* RouterContextData.history: the routes pushed, oldest first
    layers,      \* the layer stack of cursive, bottom first
    status,      \* "running", "quit" (Cursive::quit) or "panicked"; "idle": no UI
    last         \* the last handler that ran: its arguments and what it did

vars == <<resources, vresult, cinput, coutput, history, layers, status, last>>

(***************************************************************************)
(* Bounds of the model.                                                    *)
(***************************************************************************)
MaxResources == 2
MaxSearchParams == 2

(***************************************************************************)
(* Generic helpers.                                                        *)
(***************************************************************************)
None == <<>>
Some(x) == <<x>>

Perms(S) ==
    {f \in [1..Cardinality(S) -> S] : \A i, j \in DOMAIN f : i # j => f[i] # f[j]}

SeqsUpTo(S, n) == UNION {[1..k -> S] : k \in 0..n}

NoResult == [ok |-> FALSE, rule |-> "not run", resource |-> "-", link |-> "-", idx |-> 0]

(***************************************************************************)
(* JSONPath syntax.  A path is a sequence of tokens; the accepted grammar  *)
(* is the fragment  "$" ( "." name | "[" ( "*" | index ) "]" )*  of the    *)
(* language jsonpath_rust::parser::parse_json_path accepts.                *)
(***************************************************************************)
PathNames == {"tags", "id"}
PathIndexes == {"0", "1"}

RECURSIVE ParseSegments(_, _)
ParseSegments(path, i) ==
    IF i > Len(path) THEN TRUE
    ELSE IF path[i] = "."
         THEN /\ i + 1 <= Len(path)
              /\ path[i + 1] \in PathNames
              /\ ParseSegments(path, i + 2)
    ELSE IF path[i] = "["
         THEN /\ i + 2 <= Len(path)
              /\ path[i + 1] \in PathIndexes \cup {"*"}
              /\ path[i + 2] = "]"
              /\ ParseSegments(path, i + 3)
    ELSE FALSE

\* A mutant: anything that starts with the root is accepted.
ParseJsonPathRootOnly(path) == Len(path) >= 1 /\ path[1] = "$"

parse_json_path(path) ==
    /\ Len(path) >= 1
    /\ path[1] = "$"
    /\ ParseSegments(path, 2)

(***************************************************************************)
(* The data model (src/model.rs).                                          *)
(***************************************************************************)
ColName(col) == [tag |-> "Name", col |-> col, path |-> <<>>]
ColJsonPath(col, path) == [tag |-> "JsonPath", col |-> col, path |-> path]

LinkConditionEq(expr, lit) == [expr |-> expr, lit |-> lit]

SearchParam(name, ty) == [name |-> name, ty |-> ty]

Search(query, params) == [query |-> query, params |-> params]

Link(kind, search, search_params, condition) ==
    [kind |-> kind, search |-> search, search_params |-> search_params,
     condition |-> condition]

Resource(name, search, links) == [name |-> name, search |-> search, links |-> links]

(***************************************************************************)
(* validate_resource_link, validate_resource_links, validate_resources.    *)
(* A HashMap is iterated in an unspecified order: rorder is the order of   *)
(* the resource map, lorder[rid] the order of rid's link map.              *)
(***************************************************************************)
LinkErr(rule, idx) ==
    [ok |-> FALSE, rule |-> rule, resource |-> "-", link |-> "-", idx |-> idx]

OkResult == [ok |-> TRUE, rule |-> "ok", resource |-> "-", link |-> "-", idx |-> 0]

\* The first search parameter, from position i on, whose JSONPath does not parse
\* (0 when there is none).
RECURSIVE FirstBadParam(_, _)
FirstBadParam(search_params, i) ==
    IF i > Len(search_params) THEN 0
    ELSE IF /\ search_params[i].tag = "JsonPath"
            /\ ~parse_json_path(search_params[i].path)
         THEN i
         ELSE FirstBadParam(search_params, i + 1)

\* Mutants of validate_resource_link.
ValidateLinkNoSearchCheck(rs, link) ==
    IF link.kind \notin DOMAIN rs THEN LinkErr("no resource", 0)
    ELSE OkResult

ValidateLinkNoArityCheck(rs, link) ==
    IF link.kind \notin DOMAIN rs THEN LinkErr("no resource", 0)
    ELSE IF link.search \notin DOMAIN rs[link.kind].search THEN LinkErr("no search", 0)
    ELSE IF FirstBadParam(link.search_params, 1) # 0
         THEN LinkErr("jsonpath param", FirstBadParam(link.search_params, 1) - 1)
    ELSE IF /\ link.condition # None
            /\ link.condition[1].expr.tag = "JsonPath"
            /\ ~parse_json_path(link.condition[1].expr.path)
         THEN LinkErr("jsonpath condition", 0)
    ELSE OkResult

ValidateLinkNoConditionCheck(rs, link) ==
    IF link.kind \notin DOMAIN rs THEN LinkErr("no resource", 0)
    ELSE IF link.search \notin DOMAIN rs[link.kind].search THEN LinkErr("no search", 0)
    ELSE IF Len(rs[link.kind].search[link.search].params) # Len(link.search_params)
         THEN LinkErr("arity", 0)
    ELSE IF FirstBadParam(link.search_params, 1) # 0
         THEN LinkErr("jsonpath param", FirstBadParam(link.search_params, 1) - 1)
    ELSE OkResult

validate_resource_link(rs, link) ==
    IF link.kind \notin DOMAIN rs THEN LinkErr("no resource", 0)
    ELSE IF link.search \notin DOMAIN rs[link.kind].search THEN LinkErr("no search", 0)
    ELSE IF Len(rs[link.kind].search[link.search].params) # Len(link.search_params)
         THEN LinkErr("arity", 0)
    ELSE IF FirstBadParam(link.search_params, 1) # 0
         THEN LinkErr("jsonpath param", FirstBadParam(link.search_params, 1) - 1)
    ELSE IF /\ link.condition # None
            /\ link.condition[1].expr.tag = "JsonPath"
            /\ ~parse_json_path(link.condition[1].expr.path)
         THEN LinkErr("jsonpath condition", 0)
    ELSE OkResult

\* with_context(|| "error validating link {link_name}") on the first failure.
RECURSIVE validate_resource_links(_, _, _, _)
validate_resource_links(rs, links, order, i) ==
    IF i > Len(order) THEN OkResult
    ELSE LET r == validate_resource_link(rs, links[order[i]])
         IN  IF ~r.ok THEN [r EXCEPT !.link = order[i]]
             ELSE validate_resource_links(rs, links, order, i + 1)

ResErr(rule, rid) ==
    [ok |-> FALSE, rule |-> rule, resource |-> rid, link |-> "-", idx |-> 0]

\* A mutant: the duplicate display name is not looked for.
RECURSIVE ValidateFromNoDuplicateCheck(_, _, _, _)
ValidateFromNoDuplicateCheck(rs, rorder, lorder, i) ==
    IF i > Len(rorder) THEN OkResult
    ELSE LET rid == rorder[i]
             r == rs[rid]
         IN  IF rid = "" THEN ResErr("empty id", "-")
             ELSE IF r.name = "" THEN ResErr("empty name", rid)
             ELSE LET l == validate_resource_links(rs, r.links, lorder[rid], 1)
                  IN  IF ~l.ok THEN [l EXCEPT !.resource = rid]
                      ELSE ValidateFromNoDuplicateCheck(rs, rorder, lorder, i + 1)

\* The loop of validate_resources from the i-th resource of the iteration on;
\* used_names holds the names of the resources before it.
RECURSIVE ValidateFrom(_, _, _, _)
ValidateFrom(rs, rorder, lorder, i) ==
    IF i > Len(rorder) THEN OkResult
    ELSE LET rid == rorder[i]
             r == rs[rid]
             used_names == {rs[rorder[j]].name : j \in 1..(i - 1)}
         IN  IF rid = "" THEN ResErr("empty id", "-")
             ELSE IF r.name = "" THEN ResErr("empty name", rid)
             ELSE IF r.name \in used_names THEN ResErr("duplicate name", rid)
             ELSE LET l == validate_resource_links(rs, r.links, lorder[rid], 1)
                  IN  IF ~l.ok THEN [l EXCEPT !.resource = rid]
                      ELSE ValidateFrom(rs, rorder, lorder, i + 1)

validate_resources(rs, rorder, lorder) == ValidateFrom(rs, rorder, lorder, 1)

(***************************************************************************)
(* The configurations validation is checked on.                            *)
(***************************************************************************)
ResourceIds == {"", "order", "customer"}
ResourceNames == {"", "Order", "Customer"}
SearchIds == {"by_id", "by_name"}
LinkNames == {"customer", "tags", "owner"}
GoodPath == <<"$", ".", "tags">>
BadPath == <<"$", ".">>

ConfigExprs == {ColName("customer_id"), ColJsonPath("payload", GoodPath),
                ColJsonPath("payload", BadPath)}

ConfigParams(n) == [i \in 1..n |-> SearchParam(<<"p1", "p2", "p3", "p4">>[i], Some("integer"))]

\* Every resource has the search by_id, with one or MaxSearchParams parameters.
ConfigSearchMaps ==
    {[s \in {"by_id"} |-> Search("select", ConfigParams(n))] : n \in {1, MaxSearchParams}}

ConfigConditions ==
    {None} \cup {Some(LinkConditionEq(e, "x")) : e \in ConfigExprs \ {ColName("customer_id")}}

ConfigLinks ==
    {Link(k, s, sp, c) : k \in ResourceIds \ {""}, s \in SearchIds,
                         sp \in SeqsUpTo(ConfigExprs, MaxSearchParams),
                         c \in ConfigConditions}

\* A resource without links; ConfigKeySets: 1..MaxResources resources.
ConfigResources ==
    {Resource(n, s, <<>>) : n \in ResourceNames, s \in ConfigSearchMaps}

ConfigKeySets == {K \in SUBSET ResourceIds : Cardinality(K) \in 1..MaxResources}

ConfigSkeletons == UNION {[K -> ConfigResources] : K \in ConfigKeySets}

AddLink(rs, rid, ln, link) ==
    [rs EXCEPT ![rid].links = (ln :> link) @@ rs[rid].links]

\* Two links, in one resource or in two, each sound or with one defect.
DefectLinks ==
    {Link("customer", "by_id", <<ColName("customer_id")>>, None),
     Link("order", "by_id", <<ColName("customer_id")>>, None),
     Link("customer", "by_name", <<ColName("customer_id")>>, None),
     Link("customer", "by_id", <<>>, None),
     Link("customer", "by_id", <<ColJsonPath("payload", BadPath)>>, None),
     Link("customer", "by_id", <<ColName("customer_id")>>,
          Some(LinkConditionEq(ColJsonPath("payload", BadPath), "x")))}

TwoLinkSkeletons ==
    {sk \in ConfigSkeletons :
        \A rid \in DOMAIN sk : Len(sk[rid].search["by_id"].params) = 1}

LinkSlots(sk) == (DOMAIN sk) \X {"customer", "tags"}

\* The configurations validation is run on: no link, any one link (named
\* "customer"), or two links out of DefectLinks.
IsConfig(rs) ==
    \/ rs \in ConfigSkeletons
    \/ \E sk \in ConfigSkeletons : \E rid \in DOMAIN sk : \E l \in ConfigLinks :
          rs = AddLink(sk, rid, "customer", l)
    \/ \E sk \in TwoLinkSkeletons : \E s1, s2 \in LinkSlots(sk) : \E l1, l2 \in DefectLinks :
          /\ s1 # s2
          /\ rs = AddLink(AddLink(sk, s1[1], s1[2], l1), s2[1], s2[2], l2)

LinkOrders(rs) ==
    {lo \in [DOMAIN rs -> UNION {Perms(DOMAIN rs[rid].links) : rid \in DOMAIN rs}] :
        \A rid \in DOMAIN rs : lo[rid] \in Perms(DOMAIN rs[rid].links)}

NoCoercion == [op |-> "none", text |-> <<>>, vals |-> <<>>, ty |-> ""]

\* No handler has run; and the variables of the UI before tui::run.
NoLast ==
    [op |-> "none", resource_id |-> "", name |-> "", strs |-> <<>>, row |-> <<>>,
     res |-> [st |-> "none", kind |-> "", title |-> "", rows |-> <<>>, msg |-> "",
              sent |-> <<>>]]

NoUi == [history |-> <<>>, layers |-> <<>>, status |-> "idle", last |-> NoLast]

InitValidate ==
    /\ IsConfig(resources)
    /\ vresult = NoResult
    /\ cinput = NoCoercion
    /\ coutput = NoCoercion
    /\ history = NoUi.history
    /\ layers = NoUi.layers
    /\ status = NoUi.status
    /\ last = NoUi.last

\* main: validate_resources(&resources) on the parsed configuration.
ValidateResources ==
    /\ vresult = NoResult
    /\ \E rorder \in Perms(DOMAIN resources) :
         \E lorder \in LinkOrders(resources) :
            vresult' = validate_resources(resources, rorder, lorder)
    /\ UNCHANGED <<resources, cinput, coutput, history, layers, status, last>>

NextValidate == ValidateResources

SpecValidate == InitValidate /\ [][NextValidate]_vars

(***************************************************************************)
(* Properties of validation, stated on the configuration itself.           *)
(***************************************************************************)
Validated == vresult # NoResult

\* The links of the configuration, as (resource key, link name).
AllLinks ==
    {s \in (DOMAIN resources) \X LinkNames : s[2] \in DOMAIN resources[s[1]].links}

LinkAt(s) == resources[s[1]].links[s[2]]

KindResolves(l) == l.kind \in DOMAIN resources
SearchResolves(l) == KindResolves(l) /\ l.search \in DOMAIN resources[l.kind].search
ArityMismatch(l) ==
    /\ SearchResolves(l)
    /\ Len(l.search_params) # Len(resources[l.kind].search[l.search].params)

\* The JSONPath strings known to be well formed (RFC 9535).
WellFormedPaths ==
    {<<"$">>, <<"$", ".", "tags">>, <<"$", ".", "id">>,
     <<"$", ".", "tags", "[", "*", "]">>, <<"$", ".", "tags", "[", "0", "]">>}

PathsOf(l) ==
    {l.search_params[i].path :
        i \in {i \in DOMAIN l.search_params : l.search_params[i].tag = "JsonPath"}}
    \cup (IF l.condition # None /\ l.condition[1].expr.tag = "JsonPath"
          THEN {l.condition[1].expr.path} ELSE {})

ResourceRulesHold ==
    /\ \A rid \in DOMAIN resources : rid # "" /\ resources[rid].name # ""
    /\ \A r1, r2 \in DOMAIN resources : r1 # r2 => resources[r1].name # resources[r2].name

LinkSound(l) ==
    /\ SearchResolves(l)
    /\ ~ArityMismatch(l)
    /\ PathsOf(l) \subseteq WellFormedPaths

\* C1 as stated: whenever some link's search_params differ in number from the
\* params of the existing search it targets, validate_resources fails and the
\* error's context names a link with that defect.
C1_ErrorAlwaysNamesTheLink ==
    (Validated /\ \E s \in AllLinks : ArityMismatch(LinkAt(s)))
        => /\ ~vresult.ok
           /\ \E s \in AllLinks : /\ ArityMismatch(LinkAt(s))
                                  /\ vresult.resource = s[1]
                                  /\ vresult.link = s[2]

\* C1 amended: such a configuration always fails validation; validation reports
\* the first failure it meets, so the error is the arity error, with a context
\* naming the resource and the link, whenever no resource rule is broken and
\* every link without that defect is sound; and an arity error always names a
\* link with that defect.
C1_ArityMismatchFails ==
    (Validated /\ \E s \in AllLinks : ArityMismatch(LinkAt(s)))
        => /\ ~vresult.ok
           /\ vresult.rule = "arity" =>
                 \E s \in AllLinks : /\ ArityMismatch(LinkAt(s))
                                     /\ vresult.resource = s[1]
                                     /\ vresult.link = s[2]
           /\ (/\ ResourceRulesHold
               /\ \A s \in AllLinks : ArityMismatch(LinkAt(s)) \/ LinkSound(LinkAt(s)))
                 => vresult.rule = "arity"

C1_Witness ==
    /\ Validated
    /\ vresult.rule = "arity"
    /\ \E s \in AllLinks : /\ ArityMismatch(LinkAt(s))
                           /\ vresult.resource = s[1]
                           /\ vresult.link = s[2]

\* C2: validation fails whenever a link's kind is no key of the resource map or
\* its search is no search of the resource its kind names; it returns Ok only if
\* every link's kind and search resolve.
C2_UnresolvedLinkFails ==
    Validated =>
        /\ (\E s \in AllLinks : ~SearchResolves(LinkAt(s))) => ~vresult.ok
        /\ vresult.ok => \A s \in AllLinks : KindResolves(LinkAt(s)) /\ SearchResolves(LinkAt(s))

C2_Witness ==
    /\ Validated
    /\ vresult.rule = "no search"
    /\ \E s \in AllLinks : /\ KindResolves(LinkAt(s))
                           /\ ~SearchResolves(LinkAt(s))
                           /\ vresult.link = s[2]

\* C3: validation fails whenever a resource key is empty, a display name is
\* empty or two resources share a display name; when it returns Ok the keys and
\* the display names are non-empty and pairwise distinct.
C3_KeysAndNames ==
    Validated =>
        /\ ~ResourceRulesHold => ~vresult.ok
        /\ vresult.ok =>
              /\ \A rid \in DOMAIN resources : rid # "" /\ resources[rid].name # ""
              /\ Cardinality({resources[rid].name : rid \in DOMAIN resources})
                    = Cardinality(DOMAIN resources)

C3_Witness ==
    /\ Validated
    /\ vresult.rule = "duplicate name"
    /\ \E r1, r2 \in DOMAIN resources :
          /\ r1 # r2
          /\ resources[r1].name = resources[r2].name
          /\ vresult.resource \in {r1, r2}

\* C4: validation fails whenever a JSONPath of a link's search_params or of its
\* `if` condition is not well formed; when it returns Ok every such JSONPath of
\* every link is well formed.
C4_JsonPathsValid ==
    Validated =>
        /\ (\E s \in AllLinks : ~(PathsOf(LinkAt(s)) \subseteq WellFormedPaths)) => ~vresult.ok
        /\ vresult.ok => \A s \in AllLinks : PathsOf(LinkAt(s)) \subseteq WellFormedPaths

C4_Witness ==
    /\ Validated
    /\ vresult.rule = "jsonpath condition"
    /\ \E s \in AllLinks : /\ LinkAt(s).condition # None
                           /\ LinkAt(s).condition[1].expr.path \notin WellFormedPaths
                           /\ vresult.link = s[2]

(***************************************************************************)
(* Numbers.  A 64-bit integer is held in two limbs, hi * 2^16 + lo with    *)
(* 0 <= lo < 2^16, so that values outside the 32-bit range are values of   *)
(* the model; i16 and i32 values are plain integers.                       *)
(***************************************************************************)
Limb == 65536
I16Min == -32768
I16Max == 32767

Wide(hi, lo) == [hi |-> hi, lo |-> lo]
WideOf(n) == Wide(n \div Limb, n % Limb)
FitsI32(w) == w.hi >= I16Min /\ w.hi <= I16Max
WideToInt(w) == w.hi * Limb + w.lo
FitsI16(w) == FitsI32(w) /\ WideToInt(w) >= I16Min /\ WideToInt(w) <= I16Max
WideMulAdd10(w, d) ==
    LET lo2 == w.lo * 10 + d IN Wide(w.hi * 10 + lo2 \div Limb, lo2 % Limb)
WideNeg(w) == IF w.lo = 0 THEN Wide(-w.hi, 0) ELSE Wide(-w.hi - 1, Limb - w.lo)

(***************************************************************************)
(* serde_json::Value.                                                      *)
(***************************************************************************)
JNull == [k |-> "null", b |-> FALSE, n |-> Wide(0, 0), s |-> "", a |-> <<>>]
JBool(b) == [k |-> "bool", b |-> b, n |-> Wide(0, 0), s |-> "", a |-> <<>>]
\* An integer number, and a number with a fraction (s is its literal).
JInt(w) == [k |-> "int", b |-> FALSE, n |-> w, s |-> "", a |-> <<>>]
JFloat(lit) == [k |-> "float", b |-> FALSE, n |-> Wide(0, 0), s |-> lit, a |-> <<>>]
JStr(str) == [k |-> "string", b |-> FALSE, n |-> Wide(0, 0), s |-> str, a |-> <<>>]
\* An array of values, and an object as a sequence of <<key, value>>.
JArr(items) == [k |-> "array", b |-> FALSE, n |-> Wide(0, 0), s |-> "", a |-> items]
JObj(members) == [k |-> "object", b |-> FALSE, n |-> Wide(0, 0), s |-> "", a |-> members]

as_bool(v) == IF v.k = "bool" THEN Some(v.b) ELSE None
as_i64(v) == IF v.k = "int" THEN Some(v.n) ELSE None
as_f64(v) == IF v.k \in {"int", "float"} THEN Some([k |-> v.k, n |-> v.n, s |-> v.s]) ELSE None
as_str(v) == IF v.k = "string" THEN Some(v.s) ELSE None

\* The literals the timestamp and UUID parsers accept, among those of the model.
TimestampLit == "2024-01-01T00:00:00Z"
UuidLit == "67e55044-10b1-426f-9247-bb680e5fe0c8"
ValidTimestamps == {TimestampLit}
ValidUuids == {UuidLit}

(***************************************************************************)
(* Results of a coercion: Ok(value of a Rust type), Err(message, subject)  *)
(* or a panic (todo!()).                                                   *)
(***************************************************************************)
COk(ty, v) == [st |-> "ok", ty |-> ty, v |-> <<v>>, msg |-> "", arg |-> <<>>]
CErr(msg, arg) == [st |-> "err", ty |-> "", v |-> <<>>, msg |-> msg, arg |-> <<arg>>]
CPanic(msg) == [st |-> "panic", ty |-> "", v |-> <<>>, msg |-> msg, arg |-> <<>>]

(***************************************************************************)
(* json_helpers::extract_single_value.                                     *)
(***************************************************************************)
\* A mutant: the first node is taken whenever there is one.
ExtractFirstValue(vals) ==
    IF Len(vals) >= 1 THEN COk("json", vals[1])
    ELSE CErr("expected 1 result, got " \o ToString(Len(vals)), Len(vals))

extract_single_value(vals) ==
    IF Len(vals) = 1 THEN COk("json", vals[1])
    ELSE CErr("expected 1 result, got " \o ToString(Len(vals)), Len(vals))

(***************************************************************************)
(* to_sql::sql_value_from_json_slice.                                      *)
(***************************************************************************)
ScalarTypes == {"bool", "float4", "float8", "int2", "int4", "int8", "json", "jsonb",
                "text", "timestamptz", "uuid", "varchar"}
ArrayTypes == {"bool[]", "float4[]", "float8[]", "int2[]", "int4[]", "int8[]", "jsonb[]",
               "text[]", "timestamptz[]", "uuid[]", "varchar[]"}
SearchParamTypes == ScalarTypes \cup ArrayTypes

ElemType(ty) ==
    CASE ty = "bool[]" -> "bool" [] ty = "float4[]" -> "float4" [] ty = "float8[]" -> "float8"
      [] ty = "int2[]" -> "int2" [] ty = "int4[]" -> "int4" [] ty = "int8[]" -> "int8"
      [] ty = "jsonb[]" -> "jsonb" [] ty = "text[]" -> "text"
      [] ty = "timestamptz[]" -> "timestamptz" [] ty = "uuid[]" -> "uuid"
      [] ty = "varchar[]" -> "varchar" [] OTHER -> ty

\* The Rust type of a bound parameter of a scalar type.
RustType(ty) ==
    CASE ty = "bool" -> "bool" [] ty = "float4" -> "f32" [] ty = "float8" -> "f64"
      [] ty = "int2" -> "i16" [] ty = "int4" -> "i32" [] ty = "int8" -> "i64"
      [] ty \in {"json", "jsonb"} -> "serde_json::Value"
      [] ty \in {"text", "varchar"} -> "String"
      [] ty = "timestamptz" -> "jiff::Timestamp" [] ty = "uuid" -> "uuid::Uuid"

VecOf(rty) == "Vec<" \o rty \o ">"

\* A mutant: a number out of the range of the target is cut to its width.
NarrowIntWrapping(node, ty, what) ==
    IF as_i64(node) = None THEN CErr(what \o " is not a number", node)
    ELSE IF ty = "int2"
         THEN COk("i16", IF as_i64(node)[1].lo > I16Max THEN as_i64(node)[1].lo - Limb
                         ELSE as_i64(node)[1].lo)
    ELSE COk("i32", WideToInt(Wide(((as_i64(node)[1].hi - I16Min) % Limb) + I16Min,
                                   as_i64(node)[1].lo)))

\* TryInto::<i16>/<i32>::try_into(node.as_i64()?)?: a number that is out of the
\* range of the target is an error.
NarrowInt(node, ty, what) ==
    IF as_i64(node) = None THEN CErr(what \o " is not a number", node)
    ELSE IF ty = "int2"
         THEN IF ~FitsI16(as_i64(node)[1]) THEN CErr(what \o " overflows target type", node)
              ELSE COk("i16", WideToInt(as_i64(node)[1]))
    ELSE IF ~FitsI32(as_i64(node)[1]) THEN CErr(what \o " overflows target type", node)
         ELSE COk("i32", WideToInt(as_i64(node)[1]))

\* One node narrowed to the element type ty; what names the node kind in the
\* messages is "value" for a scalar target and "array element" for an array.
JsonNarrow(node, ty, what) ==
    CASE ty = "bool" ->
           IF as_bool(node) = None THEN CErr(what \o " is not a boolean", node)
           ELSE COk("bool", as_bool(node)[1])
      [] ty \in {"float4", "float8"} ->
           IF as_f64(node) = None THEN CErr(what \o " is not a number", node)
           ELSE COk(RustType(ty), as_f64(node)[1])
      [] ty \in {"int2", "int4"} -> NarrowInt(node, ty, what)
      [] ty = "int8" ->
           IF as_i64(node) = None THEN CErr(what \o " is not a number", node)
           ELSE COk("i64", as_i64(node)[1])
      [] ty \in {"json", "jsonb"} -> COk("serde_json::Value", node)
      [] ty \in {"text", "varchar"} ->
           IF as_str(node) = None THEN CErr(what \o " is not a string", node)
           ELSE COk("String", as_str(node)[1])
      [] ty = "timestamptz" ->
           IF as_str(node) = None THEN CErr(what \o " is not a string", node)
           ELSE IF as_str(node)[1] \notin ValidTimestamps
                THEN CErr(what \o " is not a valid timestamp", node)
           ELSE COk("jiff::Timestamp", as_str(node)[1])
      [] ty = "uuid" ->
           IF as_str(node) = None THEN CErr(what \o " is not a string", node)
           ELSE IF as_str(node)[1] \notin ValidUuids
                THEN CErr(what \o " is not a valid uuid", node)
           ELSE COk("uuid::Uuid", as_str(node)[1])

\* The index of the first i..Len(rs) whose result is not Ok (0: none).
RECURSIVE FirstFailure(_, _)
FirstFailure(rs, i) ==
    IF i > Len(rs) THEN 0
    ELSE IF rs[i].st # "ok" THEN i
    ELSE FirstFailure(rs, i + 1)

\* iter().map(f).collect::<Result<Vec<_>>>(): the vector, or the first error.
CollectResults(rs, vty) ==
    IF FirstFailure(rs, 1) # 0 THEN rs[FirstFailure(rs, 1)]
    ELSE COk(vty, [i \in 1..Len(rs) |-> rs[i].v[1]])

\* A mutant: a scalar target takes the first node without counting the nodes.
JsonSliceNoCardinality(val, ty) ==
    IF ty \in ScalarTypes
    THEN IF Len(val) = 0 THEN CPanic("index out of bounds")
         ELSE JsonNarrow(val[1], ty, "value")
    ELSE CollectResults([i \in 1..Len(val) |-> JsonNarrow(val[i], ElemType(ty), "array element")],
                        VecOf(RustType(ElemType(ty))))

sql_value_from_json_slice(val, ty) ==
    IF ty \in ScalarTypes
    THEN LET one == extract_single_value(val)
         IN  IF one.st # "ok" THEN one ELSE JsonNarrow(one.v[1], ty, "value")
    ELSE IF ty = "int2[]" THEN CPanic("not yet implemented")
    ELSE CollectResults([i \in 1..Len(val) |-> JsonNarrow(val[i], ElemType(ty), "array element")],
                        VecOf(RustType(ElemType(ty))))

(***************************************************************************)
(* to_sql::sql_value_from_string.  A text is a sequence of characters; a   *)
(* timestamp or UUID literal, which the parsers only take whole and which  *)
(* holds no comma, is one element of the sequence.                         *)
(***************************************************************************)
Digits == {"0", "1", "2", "3", "4", "5", "6", "7", "8", "9"}

DigitVal(c) ==
    CASE c = "0" -> 0 [] c = "1" -> 1 [] c = "2" -> 2 [] c = "3" -> 3 [] c = "4" -> 4
      [] c = "5" -> 5 [] c = "6" -> 6 [] c = "7" -> 7 [] c = "8" -> 8 [] c = "9" -> 9

\* str::split(','): the pieces between the commas, one more than the commas.
RECURSIVE SplitFrom(_, _, _)
SplitFrom(text, i, piece) ==
    IF i > Len(text) THEN <<piece>>
    ELSE IF text[i] = "," THEN <<piece>> \o SplitFrom(text, i + 1, <<>>)
    ELSE SplitFrom(text, i + 1, Append(piece, text[i]))

\* A mutant of split: the empty text has no piece.
SplitSkipEmpty(text) == IF text = <<>> THEN <<>> ELSE SplitFrom(text, 1, <<>>)

Split(text) == SplitFrom(text, 1, <<>>)

ParseOk(v) == [ok |-> TRUE, v |-> <<v>>]
ParseErr == [ok |-> FALSE, v |-> <<>>]

\* The digits text[i..] accumulated on acc.
RECURSIVE ParseDigits(_, _, _)
ParseDigits(text, i, acc) ==
    IF i > Len(text) THEN ParseOk(acc)
    ELSE IF text[i] \notin Digits THEN ParseErr
    ELSE ParseDigits(text, i + 1, WideMulAdd10(acc, DigitVal(text[i])))

\* A mutant: the digits alone, so that no digit at all is zero.
ParseI64Unguarded(text) == ParseDigits(text, 1, Wide(0, 0))

\* <i64 as FromStr>: an optional sign and at least one digit.  (No text of the
\* model has the 19 digits an i64 overflow takes.)
ParseI64(text) ==
    IF text = <<>> THEN ParseErr
    ELSE IF text[1] \in {"+", "-"}
         THEN IF Len(text) = 1 THEN ParseErr
              ELSE LET m == ParseDigits(text, 2, Wide(0, 0))
                   IN  IF ~m.ok THEN ParseErr
                       ELSE IF text[1] = "-" THEN ParseOk(WideNeg(m.v[1]))
                       ELSE m
    ELSE ParseDigits(text, 1, Wide(0, 0))

\* <i32 as FromStr>, <i16 as FromStr>: as above, an overflow is an error.
ParseI32(text) ==
    LET r == ParseI64(text)
    IN  IF r.ok /\ FitsI32(r.v[1]) THEN ParseOk(WideToInt(r.v[1])) ELSE ParseErr

ParseI16(text) ==
    LET r == ParseI64(text)
    IN  IF r.ok /\ FitsI16(r.v[1]) THEN ParseOk(WideToInt(r.v[1])) ELSE ParseErr

\* <bool as FromStr>: exactly "true" or "false".
ParseBool(text) ==
    IF text = <<"t", "r", "u", "e">> THEN ParseOk(TRUE)
    ELSE IF text = <<"f", "a", "l", "s", "e">> THEN ParseOk(FALSE)
    ELSE ParseErr

\* <f64 as FromStr>, the decimal fragment: sign? digits ( "." digits )? with a
\* digit on one side of the point at least.  The value is the literal's integer
\* part and its fraction digits.
PointAt(text) ==
    IF \E i \in DOMAIN text : text[i] = "."
    THEN CHOOSE i \in DOMAIN text : text[i] = "." /\ \A j \in 1..(i - 1) : text[j] # "."
    ELSE Len(text) + 1

ParseFloat(text) ==
    LET signed == text # <<>> /\ text[1] \in {"+", "-"}
        body == IF signed THEN SubSeq(text, 2, Len(text)) ELSE text
        pt == PointAt(body)
        ip == SubSeq(body, 1, pt - 1)
        fp == SubSeq(body, pt + 1, Len(body))
    IN  IF /\ Len(ip) + Len(fp) >= 1
           /\ \A i \in DOMAIN ip : ip[i] \in Digits
           /\ \A i \in DOMAIN fp : fp[i] \in Digits
        THEN ParseOk([neg |-> signed /\ text[1] = "-",
                      int |-> ParseDigits(ip, 1, Wide(0, 0)).v[1], frac |-> fp])
        ELSE ParseErr

\* serde_json::from_str, the fragment: an integer, true, false or null.
ParseJson(text) ==
    IF text = <<"t", "r", "u", "e">> THEN ParseOk(JBool(TRUE))
    ELSE IF text = <<"f", "a", "l", "s", "e">> THEN ParseOk(JBool(FALSE))
    ELSE IF text = <<"n", "u", "l", "l">> THEN ParseOk(JNull)
    ELSE IF /\ text # <<>>
            /\ text[1] # "+"
            /\ ParseI64(text).ok
            /\ LET d == IF text[1] = "-" THEN SubSeq(text, 2, Len(text)) ELSE text
               IN  Len(d) = 1 \/ d[1] # "0"
         THEN ParseOk(JInt(ParseI64(text).v[1]))
    ELSE ParseErr

ParseTimestamp(text) ==
    IF Len(text) = 1 /\ text[1] \in ValidTimestamps THEN ParseOk(text[1]) ELSE ParseErr

ParseUuid(text) ==
    IF Len(text) = 1 /\ text[1] \in ValidUuids THEN ParseOk(text[1]) ELSE ParseErr

\* A text as the String it is (to_owned, to_string).
ParseText(text) == ParseOk(text)

\* The parser of the scalar type ty.
ParseScalar(text, ty) ==
    CASE ty = "bool" -> ParseBool(text)
      [] ty \in {"float4", "float8"} -> ParseFloat(text)
      [] ty = "int2" -> ParseI16(text)
      [] ty = "int4" -> ParseI32(text)
      [] ty = "int8" -> ParseI64(text)
      [] ty \in {"json", "jsonb"} -> ParseJson(text)
      [] ty \in {"text", "varchar"} -> ParseText(text)
      [] ty = "timestamptz" -> ParseTimestamp(text)
      [] ty = "uuid" -> ParseUuid(text)

\* The name of the type in "error parsing value as <name>: <str_val>".
ErrTypeName(ty) ==
    CASE ty = "jsonb" -> "json" [] ty = "jsonb[]" -> "json[]" [] OTHER -> ty

sql_value_from_string(str_val, ty) ==
    IF ty \in ScalarTypes
    THEN LET r == ParseScalar(str_val, ty)
         IN  IF r.ok THEN COk(RustType(ty), r.v[1])
             ELSE CErr("error parsing value as " \o ErrTypeName(ty), str_val)
    ELSE LET pieces == Split(str_val)
             rs == [i \in 1..Len(pieces) |-> ParseScalar(pieces[i], ElemType(ty))]
         IN  IF \A i \in DOMAIN rs : rs[i].ok
             THEN COk(VecOf(RustType(ElemType(ty))), [i \in 1..Len(rs) |-> rs[i].v[1]])
             ELSE CErr("error parsing value as " \o ErrTypeName(ty), str_val)

(***************************************************************************)
(* The coercions applied to the inputs of the model, one call each.        *)
(***************************************************************************)
MaxTextLen == 3
MaxNodes == 2

TextChars == {"1", "7", "-", ",", ".", "a"}

LongTexts ==
    {<<"t", "r", "u", "e">>, <<"f", "a", "l", "s", "e">>, <<"t", "r", "u", "e", ",", "f", "a", "l", "s", "e">>,
     <<"n", "u", "l", "l">>, <<"a", ",", "b", ",", "c">>, <<"1", ",", "2", ",", "3">>,
     <<"3", "2", "7", "6", "7">>, <<"3", "2", "7", "6", "8">>, <<"-", "3", "2", "7", "6", "8">>,
     <<"-", "3", "2", "7", "6", "9">>,
     <<"2", "1", "4", "7", "4", "8", "3", "6", "4", "7">>,
     <<"2", "1", "4", "7", "4", "8", "3", "6", "4", "8">>,
     <<"-", "2", "1", "4", "7", "4", "8", "3", "6", "4", "8">>,
     <<"-", "2", "1", "4", "7", "4", "8", "3", "6", "4", "9">>,
     <<TimestampLit>>, <<TimestampLit, ",", TimestampLit>>, <<TimestampLit, "a">>,
     <<UuidLit>>, <<UuidLit, ",", UuidLit>>, <<UuidLit, ",">>}

TextInputs == SeqsUpTo(TextChars, MaxTextLen) \cup LongTexts

JsonNodes ==
    {JNull, JBool(TRUE), JInt(WideOf(42)), JInt(WideOf(-1)), JInt(WideOf(32768)),
     JInt(Wide(32768, 0)), JInt(Wide(-32769, 65535)), JFloat("1.5"),
     JStr("a"), JStr(TimestampLit), JStr(UuidLit), JArr(<<JStr("a"), JStr("b")>>)}

JsonSlices == SeqsUpTo(JsonNodes, MaxNodes)

CoercionInput(op, text, vals, ty) == [op |-> op, text |-> text, vals |-> vals, ty |-> ty]

InitCoerce ==
    /\ resources = <<>>
    /\ vresult = NoResult
    /\ cinput = NoCoercion
    /\ coutput = NoCoercion
    /\ history = NoUi.history
    /\ layers = NoUi.layers
    /\ status = NoUi.status
    /\ last = NoUi.last

FromString ==
    /\ cinput = NoCoercion
    /\ \E text \in TextInputs, ty \in SearchParamTypes :
          /\ cinput' = CoercionInput("sql_value_from_string", text, <<>>, ty)
          /\ coutput' = sql_value_from_string(text, ty)
    /\ UNCHANGED <<resources, vresult, history, layers, status, last>>

FromJsonSlice ==
    /\ cinput = NoCoercion
    /\ \E vals \in JsonSlices, ty \in SearchParamTypes :
          /\ cinput' = CoercionInput("sql_value_from_json_slice", <<>>, vals, ty)
          /\ coutput' = sql_value_from_json_slice(vals, ty)
    /\ UNCHANGED <<resources, vresult, history, layers, status, last>>

ExtractSingleValue ==
    /\ cinput = NoCoercion
    /\ \E vals \in JsonSlices :
          /\ cinput' = CoercionInput("extract_single_value", <<>>, vals, "")
          /\ coutput' = extract_single_value(vals)
    /\ UNCHANGED <<resources, vresult, history, layers, status, last>>

NextCoerce == FromString \/ FromJsonSlice \/ ExtractSingleValue

SpecCoerce == InitCoerce /\ [][NextCoerce]_vars

\* C5: extract_single_value fails with an error naming the number of nodes when
\* it is given no node or two or more, and so does every JSON coercion to a
\* scalar type; given exactly one node, extract_single_value returns that node.
C5_ExtractSingleValue ==
    /\ cinput.op = "extract_single_value" =>
          IF Len(cinput.vals) = 1
          THEN coutput.st = "ok" /\ coutput.v = <<cinput.vals[1]>>
          ELSE /\ coutput.st = "err"
               /\ coutput.msg = "expected 1 result, got " \o ToString(Len(cinput.vals))
    /\ (/\ cinput.op = "sql_value_from_json_slice"
        /\ cinput.ty \in ScalarTypes
        /\ Len(cinput.vals) # 1)
          => /\ coutput.st = "err"
             /\ coutput.msg = "expected 1 result, got " \o ToString(Len(cinput.vals))

C5_Witness ==
    /\ cinput.op = "sql_value_from_json_slice"
    /\ cinput.ty = "int4"
    /\ Len(cinput.vals) = 2
    /\ coutput.msg = "expected 1 result, got 2"

\* C6: the empty text converts to a zero-length array for every numeric array
\* type (int2[], int4[], int8[], float4[], float8[]), not to an error.
NumericArrayTypes == {"int2[]", "int4[]", "int8[]", "float4[]", "float8[]"}

C6_EmptyTextIsEmptyArray ==
    (/\ cinput.op = "sql_value_from_string"
     /\ cinput.text = <<>>
     /\ cinput.ty \in NumericArrayTypes)
        => coutput.st = "ok" /\ coutput.v = << <<>> >>

(***************************************************************************)
(* Strings built with format!/write!.                                      *)
(***************************************************************************)
\* The String of a text held as a sequence of characters.
RECURSIVE StrOf(_)
StrOf(text) == IF text = <<>> THEN "" ELSE text[1] \o StrOf(Tail(text))

\* The items written one after the other, sep before each but the first.
RECURSIVE JoinStr(_, _)
JoinStr(items, sep) ==
    IF items = <<>> THEN ""
    ELSE IF Len(items) = 1 THEN items[1]
    ELSE items[1] \o sep \o JoinStr(Tail(items), sep)

\* <i64 as Display>.
RECURSIVE WideDigits(_)
WideDigits(w) ==
    LET rh == w.hi % 10
        lo2 == rh * Limb + w.lo
        q == Wide(w.hi \div 10, lo2 \div 10)
    IN  IF w.hi = 0 /\ w.lo < 10 THEN ToString(w.lo)
        ELSE WideDigits(q) \o ToString(lo2 % 10)

WideToString(w) == IF w.hi < 0 THEN "-" \o WideDigits(WideNeg(w)) ELSE WideDigits(w)

\* <serde_json::Value as Display>: the compact serialization.  The members of
\* an object are held in the order of the map, which is the order of the keys.
RECURSIVE JsonToString(_)
JsonToString(v) ==
    CASE v.k = "null" -> "null"
      [] v.k = "bool" -> IF v.b THEN "true" ELSE "false"
      [] v.k = "int" -> WideToString(v.n)
      [] v.k = "float" -> v.s
      [] v.k = "string" -> "\"" \o v.s \o "\""
      [] v.k = "array" ->
           "[" \o JoinStr([i \in 1..Len(v.a) |-> JsonToString(v.a[i])], ",") \o "]"
      [] v.k = "object" ->
           "{" \o JoinStr([i \in 1..Len(v.a) |->
                              "\"" \o v.a[i][1] \o "\":" \o JsonToString(v.a[i][2])], ",")
               \o "}"

(***************************************************************************)
(* postgres::Row.  A row is the sequence of its cells; a cell has the name *)
(* and the type of its column and a raw value, None for NULL.              *)
(***************************************************************************)
Cell(name, ty, raw) == [name |-> name, ty |-> ty, raw |-> raw]

\* Row::try_get(name) locates the first column of that name (0: none).
RECURSIVE ColumnIndexFrom(_, _, _)
ColumnIndexFrom(row, name, i) ==
    IF i > Len(row) THEN 0
    ELSE IF row[i].name = name THEN i
    ELSE ColumnIndexFrom(row, name, i + 1)

ColumnIndex(row, name) == ColumnIndexFrom(row, name, 1)

(***************************************************************************)
(* SQLValueAsString (src/sql_value_as_string.rs) and Row::try_get.         *)
(***************************************************************************)
accepts(ty) ==
    ty \in {"bool", "int2", "int4", "int8", "jsonb", "text", "text[]", "timestamptz"}

\* from_sql: the Display form of the value read with the column's type.
from_sql(ty, val) ==
    CASE ty = "bool" -> IF val THEN "true" ELSE "false"
      [] ty \in {"int2", "int4", "int8"} -> ToString(val)
      [] ty = "jsonb" -> JsonToString(val)
      [] ty = "text" -> val
      [] ty = "text[]" ->
           "[" \o JoinStr([i \in 1..Len(val) |-> "\"" \o val[i] \o "\""], ", ") \o "]"
      [] ty = "timestamptz" -> val
      [] OTHER -> "unsupported type: " \o ty

\* A mutant: a NULL is decoded as the empty value of the type.
FromSqlNullableAsEmpty(ty, raw) == IF raw = None THEN "" ELSE from_sql(ty, raw[1])

from_sql_nullable(ty, raw) == IF raw = None THEN "<NULL>" ELSE from_sql(ty, raw[1])

\* row.try_get::<SQLValueAsString>(i).unwrap_or_else(|err| err.to_string()), as
\* to_column and build_row_view do it for the column at index i: the type is
\* checked with accepts before the value is read.
to_column(row, i) ==
    IF ~accepts(row[i].ty)
    THEN "error deserializing column " \o ToString(i - 1)
         \o ": cannot convert to SQLValueAsString the Postgres type " \o row[i].ty
    ELSE from_sql_nullable(row[i].ty, row[i].raw)

\* The same by column name, as the link resolver does it.
TryGetAsString(row, name) ==
    IF ColumnIndex(row, name) = 0 THEN "invalid column " \o name
    ELSE to_column(row, ColumnIndex(row, name))

\* row.try_get::<serde_json::Value>(name): the column exists, has a JSON type
\* and is not NULL.
TryGetJson(row, name) ==
    LET i == ColumnIndex(row, name)
    IN  IF i = 0 THEN None
        ELSE IF row[i].ty \notin {"json", "jsonb"} THEN None
        ELSE row[i].raw

(***************************************************************************)
(* JSONPath evaluation (serde_json::Value::query of jsonpath_rust), for    *)
(* the paths parse_json_path accepts: each segment maps the node list to   *)
(* the list of the children it selects, in document order.                 *)
(***************************************************************************)
RECURSIVE Flatten(_)
Flatten(lists) == IF lists = <<>> THEN <<>> ELSE lists[1] \o Flatten(Tail(lists))

RECURSIVE MembersNamed(_, _)
MembersNamed(members, name) ==
    IF members = <<>> THEN <<>>
    ELSE IF members[1][1] = name THEN <<members[1][2]>>
    ELSE MembersNamed(Tail(members), name)

SelectName(node, name) ==
    IF node.k = "object" THEN MembersNamed(node.a, name) ELSE <<>>

SelectWildcard(node) ==
    IF node.k = "array" THEN node.a
    ELSE IF node.k = "object" THEN [i \in 1..Len(node.a) |-> node.a[i][2]]
    ELSE <<>>

SelectIndex(node, idx) ==
    IF node.k = "array" /\ idx + 1 <= Len(node.a) THEN <<node.a[idx + 1]>> ELSE <<>>

RECURSIVE QuerySegments(_, _, _)
QuerySegments(nodes, path, i) ==
    IF i > Len(path) THEN nodes
    ELSE IF path[i] = "."
         THEN QuerySegments(
                  Flatten([n \in 1..Len(nodes) |-> SelectName(nodes[n], path[i + 1])]),
                  path, i + 2)
    ELSE IF path[i + 1] = "*"
         THEN QuerySegments(
                  Flatten([n \in 1..Len(nodes) |-> SelectWildcard(nodes[n])]),
                  path, i + 3)
    ELSE QuerySegments(
             Flatten([n \in 1..Len(nodes) |-> SelectIndex(nodes[n], DigitVal(path[i + 1]))]),
             path, i + 3)

\* value.query(path): Err when the path does not parse, else the nodes.
query(value, path) ==
    IF ~parse_json_path(path) THEN None ELSE Some(QuerySegments(<<value>>, path, 2))

(***************************************************************************)
(* The query executor and the link resolver (src/tui.rs).  A helper        *)
(* returns Ok, returns Err or panics; sent is the list of the calls it     *)
(* made to db.query, each with the SQL text and the bound parameters.      *)
(* db is the answer the database gives to a call: an error or rows.        *)
(***************************************************************************)
Integer == "integer"
TextArray == "text[]"

Bound(ty, v) == [ty |-> ty, v |-> v]
DbCall(sql, params) == [query |-> sql, params |-> params]

DbErr == [ok |-> FALSE, rows |-> <<>>]
DbRows(rows) == [ok |-> TRUE, rows |-> rows]

HOk(kind, title, rows, sent) ==
    [st |-> "ok", kind |-> kind, title |-> title, rows |-> rows, msg |-> "", sent |-> sent]
HErr(msg, sent) ==
    [st |-> "err", kind |-> "", title |-> "", rows |-> <<>>, msg |-> msg, sent |-> sent]
HPanic(msg) ==
    [st |-> "panic", kind |-> "", title |-> "", rows |-> <<>>, msg |-> msg, sent |-> <<>>]

MinLen(a, b) == IF Len(a) <= Len(b) THEN Len(a) ELSE Len(b)

\* A mutant: a text that does not parse binds 0.
QueryParamValueLenient(param, str_val) ==
    IF param.ty = None THEN COk("String", StrOf(str_val))
    ELSE IF param.ty = Some(Integer)
         THEN IF ParseI32(str_val).ok THEN COk("i32", ParseI32(str_val).v[1])
              ELSE COk("i32", 0)
    ELSE COk("Vec<String>", [i \in 1..Len(Split(str_val)) |-> StrOf(Split(str_val)[i])])

\* The body of the loop of on_query_helper for one (param, str_val).
QueryParamValue(param, str_val) ==
    IF param.ty = None THEN COk("String", StrOf(str_val))
    ELSE IF param.ty = Some(Integer)
         THEN IF ParseI32(str_val).ok THEN COk("i32", ParseI32(str_val).v[1])
              ELSE CErr("error parsing parameter " \o param.name \o " as string: "
                        \o StrOf(str_val), str_val)
    ELSE COk("Vec<String>", [i \in 1..Len(Split(str_val)) |-> StrOf(Split(str_val)[i])])

on_query_helper(rs, resource_id, search_id, params_str_values, db) ==
    IF resource_id \notin DOMAIN rs THEN HPanic("invalid resource id")
    ELSE IF search_id \notin DOMAIN rs[resource_id].search THEN HPanic("invalid search id")
    ELSE
      LET r == rs[resource_id]
          s == r.search[search_id]
          \* zip stops at the end of the shorter list
          n == MinLen(s.params, params_str_values)
          vals == [i \in 1..n |-> QueryParamValue(s.params[i], params_str_values[i])]
          title == r.name \o " / " \o search_id \o " ("
                   \o JoinStr([i \in 1..n |->
                                  s.params[i].name \o "=" \o StrOf(params_str_values[i])], ", ")
                   \o ")"
          call == DbCall(s.query, [i \in 1..n |-> Bound(vals[i].ty, vals[i].v[1])])
      IN  IF FirstFailure(vals, 1) # 0 THEN HErr(vals[FirstFailure(vals, 1)].msg, <<>>)
          ELSE IF ~db.ok THEN HErr("error running SQL query", <<call>>)
          ELSE HOk("", title, db.rows, <<call>>)

\* The value and the title item of one link parameter, or the failure.
LOk(ty, v, item) == [st |-> "ok", ty |-> ty, v |-> <<v>>, item |-> item, msg |-> ""]
LErr(msg) == [st |-> "err", ty |-> "", v |-> <<>>, item |-> "", msg |-> msg]
LPanic(msg) == [st |-> "panic", ty |-> "", v |-> <<>>, item |-> "", msg |-> msg]

\* A mutant: a column of another type is bound as its text, and a missing
\* column is a recoverable error.
NameParamValueAsText(name, row) ==
    LET i == ColumnIndex(row, name)
    IN  IF i = 0 THEN LErr("invalid column name")
        ELSE IF row[i].ty = "int4"
             THEN LOk("Option<i32>", row[i].raw, TryGetAsString(row, name))
        ELSE LOk("Option<String>", Some(TryGetAsString(row, name)), TryGetAsString(row, name))

\* The arm LinkSearchParam::Name: the cell is bound as read with the type of
\* its own column, Option<String> or Option<i32> (None for NULL).
NameParamValue(name, row) ==
    LET i == ColumnIndex(row, name)
    IN  IF i = 0 THEN LPanic("invalid column name")
        ELSE IF row[i].ty = "text"
             THEN LOk("Option<String>", row[i].raw, TryGetAsString(row, name))
        ELSE IF row[i].ty = "int4"
             THEN LOk("Option<i32>", row[i].raw, TryGetAsString(row, name))
        ELSE LPanic("not yet implemented")

\* The arm LinkSearchParam::JsonPath, the nodes narrowed by target_param.ty.
JsonPathParamValue(col_name, path, target_param, row) ==
    LET col_value_title == TryGetAsString(row, col_name)
        col_value == TryGetJson(row, col_name)
        results == query(col_value[1], path)[1]
        item == StrOf(path) \o "=" \o col_value_title
        one == extract_single_value(results)
        strs == [i \in 1..Len(results) |->
                    IF as_str(results[i]) = None
                    THEN CErr("dereferenced value is not a string", results[i])
                    ELSE COk("String", as_str(results[i])[1])]
    IN  IF col_value = None THEN LErr("error parsing value as JSON")
        ELSE IF query(col_value[1], path) = None THEN LErr("error dereferencing value")
        ELSE IF target_param.ty = Some(Integer)
             THEN IF one.st # "ok" THEN LErr(one.msg)
                  ELSE IF as_i64(one.v[1]) = None
                       THEN LErr("dereferenced value is not a number")
                  ELSE IF ~FitsI32(as_i64(one.v[1])[1])
                       THEN LErr("integer values overflows target type")
                  ELSE LOk("i32", WideToInt(as_i64(one.v[1])[1]), item)
        ELSE IF target_param.ty = Some(TextArray)
             THEN IF FirstFailure(strs, 1) # 0 THEN LErr(strs[FirstFailure(strs, 1)].msg)
                  ELSE LOk("Vec<String>", [i \in 1..Len(strs) |-> strs[i].v[1]], item)
        ELSE IF one.st # "ok" THEN LErr(one.msg)
             ELSE IF as_str(one.v[1]) = None THEN LErr("dereferenced value is not a string")
             ELSE LOk("String", as_str(one.v[1])[1], item)

\* A mutant: a bare column is converted to the type the target declares.
LinkParamValueByTarget(param, target_param, row) ==
    IF param.tag = "JsonPath"
    THEN JsonPathParamValue(param.col, param.path, target_param, row)
    ELSE IF NameParamValue(param.col, row).st # "ok" THEN NameParamValue(param.col, row)
    ELSE IF target_param.ty = Some(Integer)
         THEN LOk("Option<i32>",
                  IF row[ColumnIndex(row, param.col)].ty = "int4"
                  THEN row[ColumnIndex(row, param.col)].raw ELSE None,
                  TryGetAsString(row, param.col))
    ELSE LOk("Option<String>",
             IF row[ColumnIndex(row, param.col)].raw = None THEN None
             ELSE Some(TryGetAsString(row, param.col)),
             TryGetAsString(row, param.col))

LinkParamValue(param, target_param, row) ==
    IF param.tag = "Name" THEN NameParamValue(param.col, row)
    ELSE JsonPathParamValue(param.col, param.path, target_param, row)

\* A mutant of the title: the items are not separated.
LinkTitleNoSeparator(name, items, link_name) ==
    name \o " (" \o JoinStr(items, "") \o ") → " \o link_name

\* The title on_pick_link_helper writes piece by piece.
LinkTitle(name, items, link_name) ==
    name \o " (" \o JoinStr(items, ", ") \o ") → " \o link_name

\* A mutant: the rows come back under the resource the link was picked on.
OnPickLinkHelperKeepsSource(rs, resource_id, link_name, row, db) ==
    IF resource_id \notin DOMAIN rs THEN HPanic("invalid resource id")
    ELSE IF link_name \notin DOMAIN rs[resource_id].links THEN HPanic("invalid link name")
    ELSE IF rs[resource_id].links[link_name].kind \notin DOMAIN rs
         THEN HPanic("invalid link kind")
    ELSE IF rs[resource_id].links[link_name].search
               \notin DOMAIN rs[rs[resource_id].links[link_name].kind].search
         THEN HPanic("invalid link search name")
    ELSE
      LET r == rs[resource_id]
          link == r.links[link_name]
          link_search == rs[link.kind].search[link.search]
          n == MinLen(link.search_params, link_search.params)
          vals == [i \in 1..n |->
                      LinkParamValue(link.search_params[i], link_search.params[i], row)]
          bad == FirstFailure(vals, 1)
          title == LinkTitle(r.name, [i \in 1..n |-> vals[i].item], link_name)
          call == DbCall(link_search.query, [i \in 1..n |-> Bound(vals[i].ty, vals[i].v[1])])
      IN  IF bad # 0 /\ vals[bad].st = "panic" THEN HPanic(vals[bad].msg)
          ELSE IF bad # 0 THEN HErr(vals[bad].msg, <<>>)
          ELSE IF ~db.ok THEN HErr("error running SQL query", <<call>>)
          ELSE HOk(resource_id, title, db.rows, <<call>>)

on_pick_link_helper(rs, resource_id, link_name, row, db) ==
    IF resource_id \notin DOMAIN rs THEN HPanic("invalid resource id")
    ELSE IF link_name \notin DOMAIN rs[resource_id].links THEN HPanic("invalid link name")
    ELSE IF rs[resource_id].links[link_name].kind \notin DOMAIN rs
         THEN HPanic("invalid link kind")
    ELSE IF rs[resource_id].links[link_name].search
               \notin DOMAIN rs[rs[resource_id].links[link_name].kind].search
         THEN HPanic("invalid link search name")
    ELSE
      LET r == rs[resource_id]
          link == r.links[link_name]
          link_search == rs[link.kind].search[link.search]
          n == MinLen(link.search_params, link_search.params)
          vals == [i \in 1..n |->
                      LinkParamValue(link.search_params[i], link_search.params[i], row)]
          bad == FirstFailure(vals, 1)
          title == LinkTitle(r.name, [i \in 1..n |-> vals[i].item], link_name)
          call == DbCall(link_search.query, [i \in 1..n |-> Bound(vals[i].ty, vals[i].v[1])])
      IN  IF bad # 0 /\ vals[bad].st = "panic" THEN HPanic(vals[bad].msg)
          ELSE IF bad # 0 THEN HErr(vals[bad].msg, <<>>)
          ELSE IF ~db.ok THEN HErr("error running SQL query", <<call>>)
          ELSE HOk(link.kind, title, db.rows, <<call>>)

(***************************************************************************)
(* Routes and the cursive layer stack (src/tui.rs).  A route is what the   *)
(* router history stores; mounting a route adds the layer of its view,     *)
(* built from the data of the route, and unmounting pops the top layer.    *)
(***************************************************************************)
Route(route, resource_id, search_id, title, rows) ==
    [route |-> route, resource_id |-> resource_id, search_id |-> search_id,
     title |-> title, rows |-> rows]

RouteResourcePicker == Route("ResourcePicker", "", "", "", <<>>)
SearchPickerRoute(resource_id) == Route("SearchPicker", resource_id, "", "", <<>>)
QueryRoute(resource_id, search_id) == Route("Query", resource_id, search_id, "", <<>>)
QueryResultsRoute(resource_id, title, rows) ==
    Route("QueryResults", resource_id, "", title, rows)

\* A layer: the view, what it was built from, the items of its SelectView,
\* the named EditViews of a form with their content, the row of an overlay,
\* the panels of a row view (cells, filled in by build_row_view).
Layer(view, of, items, fields, row, msg) ==
    [view |-> view, of |-> of, items |-> items, fields |-> fields, row |-> row, msg |-> msg,
     cells |-> <<>>]

NoRoute == Route("", "", "", "", <<>>)

build_resource_picker(rs) ==
    Layer("resource_picker", NoRoute, {<<rs[k].name, k>> : k \in DOMAIN rs}, <<>>, None, "")

build_search_picker(rs, resource_id) ==
    Layer("search_picker", SearchPickerRoute(resource_id),
          {<<s, s>> : s \in DOMAIN rs[resource_id].search}, <<>>, None, "")

build_query(rs, resource_id, search_id) ==
    LET s == rs[resource_id].search[search_id]
    IN  Layer("query", QueryRoute(resource_id, search_id), {},
              [i \in 1..Len(s.params) |-> [name |-> s.params[i].name, content |-> <<>>]],
              None, "")

build_query_results(resource_id, title, rows) ==
    Layer("query_results", QueryResultsRoute(resource_id, title, rows), {}, <<>>, None, "")

\* A mutant: the links with an "if" are left out.
BuildLinkPickerUnconditional(rs, resource_id, row) ==
    Layer("link_picker", [NoRoute EXCEPT !.resource_id = resource_id],
          {<<l, l>> : l \in {k \in DOMAIN rs[resource_id].links :
                                  rs[resource_id].links[k].condition = None}},
          <<>>, Some(row), "")

build_link_picker(rs, resource_id, row) ==
    Layer("link_picker", [NoRoute EXCEPT !.resource_id = resource_id],
          {<<l, l>> : l \in DOMAIN rs[resource_id].links}, <<>>, Some(row), "")

\* The index of the first cell of row[i..] that has no decode rule (0: none).
RECURSIVE FirstUndecodable(_, _)
FirstUndecodable(row, i) ==
    IF i > Len(row) THEN 0
    ELSE IF ~accepts(row[i].ty) THEN i
    ELSE FirstUndecodable(row, i + 1)

\* A mutant: the view holds the cells before the first one that does not decode.
BuildRowViewFailFast(row) ==
    [Layer("row_view", NoRoute, {}, <<>>, Some(row), "") EXCEPT
        !.cells = [i \in 1..(IF FirstUndecodable(row, 1) = 0 THEN Len(row)
                             ELSE FirstUndecodable(row, 1) - 1) |->
                      [title |-> row[i].name, text |-> to_column(row, i)]]]

\* build_row_view: one panel per column, titled with the name of the column,
\* holding the decoded cell or the text of the error.
build_row_view(row) ==
    [Layer("row_view", NoRoute, {}, <<>>, Some(row), "") EXCEPT
        !.cells = [i \in 1..Len(row) |-> [title |-> row[i].name, text |-> to_column(row, i)]]]

build_query_error(msg) == Layer("error", NoRoute, {}, <<>>, None, msg)

\* The lookups a mount makes with expect.
MountPanics(rs, route) ==
    \/ /\ route.route \in {"SearchPicker", "Query"}
       /\ route.resource_id \notin DOMAIN rs
    \/ /\ route.route = "Query"
       /\ route.resource_id \in DOMAIN rs
       /\ route.search_id \notin DOMAIN rs[route.resource_id].search

mount(rs, route) ==
    CASE route.route = "ResourcePicker" -> build_resource_picker(rs)
      [] route.route = "SearchPicker" -> build_search_picker(rs, route.resource_id)
      [] route.route = "Query" -> build_query(rs, route.resource_id, route.search_id)
      [] route.route = "QueryResults" ->
           build_query_results(route.resource_id, route.title, route.rows)

\* A sequence without its last element.
Front(s) == IF s = <<>> THEN s ELSE SubSeq(s, 1, Len(s) - 1)

\* Cursive::pop_layer: the top layer, if any, is removed.
\* A mutant: the layer on top stays.
PopLayerKeeps(ls) == ls

pop_layer(ls) == Front(ls)

\* A mutant: the new layer takes the place of the layer on top.
AddLayerReplacing(ls, layer) == Append(Front(ls), layer)

add_layer(ls, layer) == Append(ls, layer)

Nav(h, ls, st) == [history |-> h, layers |-> ls, status |-> st]

\* A mutant of push: the new route takes the place of the one on top.
RouterPushReplace(rs, h, ls, route) ==
    Nav(Append(Front(h), route), add_layer(pop_layer(ls), mount(rs, route)), "running")

\* Router::push: unmount the route on top, if any; mount and push the new one.
RouterPush(rs, h, ls, route) ==
    LET unmounted == IF h # <<>> THEN pop_layer(ls) ELSE ls
    IN  IF MountPanics(rs, route) THEN Nav(h, unmounted, "panicked")
        ELSE Nav(Append(h, route), add_layer(unmounted, mount(rs, route)), "running")

\* A mutant of pop: the session goes on when no route is left.
RouterPopNeverQuits(rs, h, ls) ==
    IF Front(h) = <<>> THEN Nav(<<>>, pop_layer(ls), "running")
    ELSE Nav(Front(h), add_layer(pop_layer(ls), mount(rs, h[Len(h) - 1])), "running")

\* A mutant of pop: the route on top is unmounted and mounted again, the
\* history keeps it.
RouterPopKeepsHistory(rs, h, ls) ==
    IF h = <<>> THEN Nav(h, ls, "quit")
    ELSE Nav(h, add_layer(pop_layer(ls), mount(rs, h[Len(h)])), "running")

\* Router::pop: pop and unmount the route on top, if any; mount the one that is
\* now on top, or quit when there is none.
RouterPop(rs, h, ls) ==
    LET h1 == Front(h)
        unmounted == IF h # <<>> THEN pop_layer(ls) ELSE ls
    IN  IF h1 = <<>> THEN Nav(h1, unmounted, "quit")
        ELSE IF MountPanics(rs, h1[Len(h1)]) THEN Nav(h1, unmounted, "panicked")
        ELSE Nav(h1, add_layer(unmounted, mount(rs, h1[Len(h1)])), "running")

\* gather_query_parameter_strings: call_on_name finds the first EditView of the
\* name on the layer stack; None stands for the panic "missing param view".
RECURSIVE ContentOf(_, _, _)
ContentOf(fields, name, i) ==
    IF i > Len(fields) THEN None
    ELSE IF fields[i].name = name THEN Some(fields[i].content)
    ELSE ContentOf(fields, name, i + 1)

AllFields(ls) == Flatten([i \in 1..Len(ls) |-> ls[Len(ls) + 1 - i].fields])

gather_query_parameter_strings(ls, param_names) ==
    IF \E i \in 1..Len(param_names) : ContentOf(AllFields(ls), param_names[i], 1) = None
    THEN None
    ELSE Some([i \in 1..Len(param_names) |-> ContentOf(AllFields(ls), param_names[i], 1)[1]])

(***************************************************************************)
(* The catalog, the rows and the texts navigation is checked on.           *)
(***************************************************************************)
MaxHistory == 5

TagsPath == <<"$", ".", "tags", "[", "*", "]">>
IdPath == <<"$", ".", "id">>
TagsMemberPath == <<"$", ".", "tags">>

NavCatalog ==
    [order |->
        Resource("order",
                 [by_id |-> Search("select * from orders where id = $1",
                                   <<SearchParam("id", Some(Integer))>>)],
                 [customer |-> Link("customer", "by_id", <<ColName("customer_id")>>, None),
                  tagged |-> Link("customer", "by_tags",
                                  <<ColJsonPath("payload", TagsPath)>>,
                                  Some(LinkConditionEq(ColJsonPath("payload", IdPath), "7"))),
                  tags |-> Link("customer", "by_tags",
                                <<ColJsonPath("payload", TagsMemberPath)>>, None),
                  same |-> Link("customer", "by_name_id",
                                <<ColName("note"), ColJsonPath("payload", IdPath)>>, None)]),
     customer |->
        Resource("Customer",
                 [by_id |-> Search("select * from customers where id = $1",
                                   <<SearchParam("id", Some(Integer))>>),
                  by_tags |-> Search("select * from customers where tags && $1",
                                     <<SearchParam("tags", Some(TextArray))>>),
                  by_name_id |-> Search("select * from customers where name = $1 or id = $2",
                                        <<SearchParam("name", None),
                                          SearchParam("id", Some(Integer))>>)],
                 [orders |-> Link("order", "by_id", <<ColName("customer_id")>>, None)])]

\* The catalog above, and the same with one link that validation refuses: a
\* list of expressions shorter than the parameters of the target search, a
\* kind that is no resource, a search the target resource has not.
NavCatalogs ==
    {NavCatalog,
     [NavCatalog EXCEPT !["order"].links["same"].search_params = <<ColName("note")>>],
     [NavCatalog EXCEPT !["order"].links["customer"].kind = "nobody"],
     [NavCatalog EXCEPT !["customer"].links["orders"].search = "by_nothing"]}

Payload(id, tags) == JObj(<<<<"id", id>>, <<"tags", JArr(tags)>>>>)

\* Rows the database may answer with: plain values; NULLs; the same columns
\* with other types and a payload of other shapes; a column type the resolver
\* has no arm for, a column missing and a payload of type json; a payload
\* that holds {"tags": ["a","b"]} and nothing else.
RowPlain ==
    <<Cell("customer_id", "int4", Some(42)), Cell("note", "text", Some("hi")),
      Cell("payload", "jsonb", Some(Payload(JInt(WideOf(7)), <<JStr("a"), JStr("b")>>)))>>
RowNulls ==
    <<Cell("customer_id", "int4", None), Cell("note", "text", None),
      Cell("payload", "jsonb", None)>>
RowOther ==
    <<Cell("customer_id", "text", Some("42")), Cell("note", "int4", Some(5)),
      Cell("payload", "jsonb", Some(Payload(JInt(Wide(I16Max + 1, 0)), <<JInt(WideOf(1))>>)))>>
RowOdd ==
    <<Cell("customer_id", "bool", Some(TRUE)),
      Cell("payload", "json", Some(Payload(JStr("x"), <<>>)))>>

RowTags ==
    <<Cell("customer_id", "int4", Some(7)),
      Cell("payload", "jsonb", Some(JObj(<<<<"tags", JArr(<<JStr("a"), JStr("b")>>)>>>>)))>>

RowChoices == {RowPlain, RowNulls, RowOther, RowOdd, RowTags}

DbAnswers == {DbErr, DbRows(<<>>)} \cup {DbRows(<<r>>) : r \in RowChoices}

\* What is typed in an EditView.
FormTexts == {<<>>, <<"4", "2">>, <<"4", "x">>, <<"a", ",", "b">>}

(***************************************************************************)
(* Navigation: tui::run and the event handlers, one action per handler.    *)
(* The events of a layer reach it only while it is the top layer.          *)
(***************************************************************************)
Last(op, resource_id, name, strs, row, res) ==
    [op |-> op, resource_id |-> resource_id, name |-> name, strs |-> strs, row |-> row,
     res |-> res]

\* A mutant: a handler that calls neither helper sends a query of its own.
PlainRequerying(op) ==
    [NoLast EXCEPT !.op = op, !.res.sent = <<[query |-> "select", params |-> <<>>]>>]

\* A handler that calls neither helper.
Plain(op) == [NoLast EXCEPT !.op = op]

Top == layers[Len(layers)]

OnTop(view) == status = "running" /\ layers # <<>> /\ Top.view = view

Become(nav) ==
    /\ history' = nav.history
    /\ layers' = nav.layers
    /\ status' = nav.status

\* tui::run: the router is created and the resource picker pushed.
InitNavigate ==
    /\ resources \in NavCatalogs
    /\ vresult \in {validate_resources(resources, ro, lo) :
                       ro \in Perms(DOMAIN resources), lo \in LinkOrders(resources)}
    /\ vresult.ok
    /\ cinput = NoCoercion
    /\ coutput = NoCoercion
    /\ history = RouterPush(resources, <<>>, <<>>, RouteResourcePicker).history
    /\ layers = RouterPush(resources, <<>>, <<>>, RouteResourcePicker).layers
    /\ status = "running"
    /\ last = NoLast

\* on_submit of the resource picker.
SubmitResource ==
    /\ OnTop("resource_picker")
    /\ Len(history) < MaxHistory
    /\ \E item \in Top.items :
          Become(RouterPush(resources, history, layers, SearchPickerRoute(item[2])))
    /\ last' = Plain("submit_resource")
    /\ UNCHANGED <<resources, vresult, cinput, coutput>>

\* on_submit of the search picker.
SubmitSearch ==
    /\ OnTop("search_picker")
    /\ Len(history) < MaxHistory
    /\ \E item \in Top.items :
          Become(RouterPush(resources, history, layers,
                            QueryRoute(Top.of.resource_id, item[2])))
    /\ last' = Plain("submit_search")
    /\ UNCHANGED <<resources, vresult, cinput, coutput>>

\* The user edits the content of one EditView of the form.
EditParam ==
    /\ OnTop("query")
    /\ \E i \in 1..Len(Top.fields), text \in FormTexts :
          layers' = [layers EXCEPT ![Len(layers)].fields[i].content = text]
    /\ last' = Plain("edit")
    /\ UNCHANGED <<resources, vresult, cinput, coutput, history, status>>

\* on_query, the callback of the Search button.
OnQuery ==
    /\ OnTop("query")
    /\ \E db \in DbAnswers :
          LET resource_id == Top.of.resource_id
              search_id == Top.of.search_id
              known == /\ resource_id \in DOMAIN resources
                       /\ search_id \in DOMAIN resources[resource_id].search
              s == resources[resource_id].search[search_id]
              strs == gather_query_parameter_strings(
                          layers, [i \in 1..Len(s.params) |-> s.params[i].name])
              res == IF ~known THEN HPanic("invalid resource id")
                     ELSE IF strs = None THEN HPanic("missing param view")
                     ELSE on_query_helper(resources, resource_id, search_id, strs[1], db)
          IN  /\ res.st = "ok" => Len(history) < MaxHistory
              /\ Become(IF res.st = "ok"
                        THEN RouterPush(resources, history, layers,
                                        QueryResultsRoute(resource_id, res.title, res.rows))
                        ELSE IF res.st = "err"
                             THEN Nav(history, add_layer(layers, build_query_error(res.msg)),
                                      "running")
                        ELSE Nav(history, layers, "panicked"))
              /\ last' = Last("on_query", resource_id, search_id,
                              IF known /\ strs # None THEN strs[1] ELSE <<>>, None, res)
    /\ UNCHANGED <<resources, vresult, cinput, coutput>>

\* Esc on the view of a route: Router::pop.
Esc ==
    /\ status = "running"
    /\ layers # <<>>
    /\ Top.view \in {"resource_picker", "search_picker", "query", "query_results"}
    /\ Become(RouterPop(resources, history, layers))
    /\ last' = Plain("pop")
    /\ UNCHANGED <<resources, vresult, cinput, coutput>>

\* 'l' on the result table with a row selected: on_show_links.
OnShowLinks ==
    /\ OnTop("query_results")
    /\ \E index \in 1..Len(Top.of.rows) :
          layers' = add_layer(layers, build_link_picker(resources, Top.of.resource_id,
                                                        Top.of.rows[index]))
    /\ last' = Plain("show_links")
    /\ UNCHANGED <<resources, vresult, cinput, coutput, history, status>>

\* on_submit of the result table: the row view.
ShowRow ==
    /\ OnTop("query_results")
    /\ \E index \in 1..Len(Top.of.rows) :
          layers' = add_layer(layers, build_row_view(Top.of.rows[index]))
    /\ last' = Plain("show_row")
    /\ UNCHANGED <<resources, vresult, cinput, coutput, history, status>>

\* Close of the row view, OK of the error dialog, Esc on the link picker.
CloseOverlay ==
    /\ status = "running"
    /\ layers # <<>>
    /\ Top.view \in {"row_view", "error", "link_picker"}
    /\ layers' = pop_layer(layers)
    /\ last' = Plain("close")
    /\ UNCHANGED <<resources, vresult, cinput, coutput, history, status>>

\* on_pick_link, the on_submit of the link picker.
OnPickLink ==
    /\ OnTop("link_picker")
    /\ \E item \in Top.items, db \in DbAnswers :
          LET resource_id == Top.of.resource_id
              row == Top.row[1]
              closed == pop_layer(layers)
              res == on_pick_link_helper(resources, resource_id, item[2], row, db)
          IN  /\ res.st = "ok" => Len(history) < MaxHistory
              /\ Become(IF res.st = "ok"
                        THEN RouterPush(resources, history, closed,
                                        QueryResultsRoute(res.kind, res.title, res.rows))
                        ELSE IF res.st = "err"
                             THEN Nav(history, add_layer(closed, build_query_error(res.msg)),
                                      "running")
                        ELSE Nav(history, closed, "panicked"))
              /\ last' = Last("on_pick_link", resource_id, item[2], <<>>, Some(row), res)
    /\ UNCHANGED <<resources, vresult, cinput, coutput>>

\* The global callback of 'q'.
Quit ==
    /\ status = "running"
    /\ status' = "quit"
    /\ last' = Plain("quit")
    /\ UNCHANGED <<resources, vresult, cinput, coutput, history, layers>>

NextNavigate ==
    \/ SubmitResource
    \/ SubmitSearch
    \/ EditParam
    \/ OnQuery
    \/ Esc
    \/ OnShowLinks
    \/ ShowRow
    \/ CloseOverlay
    \/ OnPickLink
    \/ Quit

SpecNavigate == InitNavigate /\ [][NextNavigate]_vars

(***************************************************************************)
(* The query executor called on its own, with any list of strings.         *)
(***************************************************************************)
InitExecute ==
    /\ resources = NavCatalog
    /\ vresult = OkResult
    /\ cinput = NoCoercion
    /\ coutput = NoCoercion
    /\ history = NoUi.history
    /\ layers = NoUi.layers
    /\ status = NoUi.status
    /\ last = NoLast

CallOnQueryHelper ==
    /\ last = NoLast
    /\ \E resource_id \in DOMAIN resources :
          \E search_id \in DOMAIN resources[resource_id].search :
             \E strs \in SeqsUpTo(FormTexts, MaxSearchParams + 1), db \in DbAnswers :
                last' = Last("on_query_helper", resource_id, search_id, strs, None,
                             on_query_helper(resources, resource_id, search_id, strs, db))
    /\ UNCHANGED <<resources, vresult, cinput, coutput, history, layers, status>>

NextExecute == CallOnQueryHelper

SpecExecute == InitExecute /\ [][NextExecute]_vars

(***************************************************************************)
(* Properties of the query executor.                                       *)
(***************************************************************************)
\* The search the last handler ran, and the parameters whose text does not
\* convert: only an integer parameter has texts that do not.
LastSearch == resources[last.resource_id].search[last.name]

Unconvertible ==
    {i \in 1..MinLen(LastSearch.params, last.strs) :
        LastSearch.params[i].ty = Some(Integer) /\ ~ParseI32(last.strs[i]).ok}

FirstUnconvertible == CHOOSE i \in Unconvertible : \A j \in Unconvertible : i <= j

\* What the text of parameter i binds once converted.
Converted(i) ==
    IF LastSearch.params[i].ty = None THEN Bound("String", StrOf(last.strs[i]))
    ELSE IF LastSearch.params[i].ty = Some(Integer)
         THEN Bound("i32", ParseI32(last.strs[i]).v[1])
    ELSE Bound("Vec<String>",
               [k \in 1..Len(Split(last.strs[i])) |-> StrOf(Split(last.strs[i])[k])])

\* C7: when the Search button is pressed and the text of some parameter does
\* not convert to the declared type, on_query_helper returns an error that
\* names the first such parameter and its text, and no query is sent; otherwise
\* exactly one query is sent, the SQL of the search with one bound value per
\* declared parameter, in declaration order.  Never more than one query.
C7_AbortOnFirstBadParameter ==
    (last.op = "on_query" /\ last.res.st # "panic") =>
        /\ Len(last.strs) = Len(LastSearch.params)
        /\ Len(last.res.sent) <= 1
        /\ Unconvertible # {} =>
              /\ last.res.st = "err"
              /\ last.res.sent = <<>>
              /\ last.res.msg =
                    "error parsing parameter " \o LastSearch.params[FirstUnconvertible].name
                    \o " as string: " \o StrOf(last.strs[FirstUnconvertible])
        /\ Unconvertible = {} =>
              /\ Len(last.res.sent) = 1
              /\ last.res.sent[1].query = LastSearch.query
              /\ Len(last.res.sent[1].params) = Len(LastSearch.params)
              /\ \A i \in 1..Len(LastSearch.params) :
                    /\ last.res.sent[1].params[i].ty = Converted(i).ty
                    /\ last.res.sent[1].params[i].v = Converted(i).v

\* The form of by_name_id is submitted with a name that converts and an id
\* that does not: the error names id and its text, nothing is sent, the error
\* dialog is shown over the form.
C7_Witness ==
    /\ last.op = "on_query"
    /\ last.name = "by_name_id"
    /\ last.strs = <<<<"a", ",", "b">>, <<"4", "x">>>>
    /\ last.res.st = "err"
    /\ last.res.msg = "error parsing parameter id as string: 4x"
    /\ last.res.sent = <<>>
    /\ Top.view = "error"

LastLink == resources[last.resource_id].links[last.name]
LastTarget == resources[LastLink.kind].search[LastLink.search]
LastRow == last.row[1]
LastCell(i) == LastRow[ColumnIndex(LastRow, LastLink.search_params[i].col)]

\* C9: when on_pick_link_helper sends the query of a link, it is the query of
\* the target search with one value per link expression, in order; the value
\* of a bare column is the cell of that column as the row holds it, an
\* Option<String> for a text column and an Option<i32> for an int4 column,
\* None for NULL, whatever type the target parameter declares.
C9_BareColumnBindsNativeValue ==
    (last.op = "on_pick_link" /\ last.res.sent # <<>>) =>
        /\ Len(last.res.sent) = 1
        /\ last.res.sent[1].query = LastTarget.query
        /\ Len(last.res.sent[1].params) = Len(LastLink.search_params)
        /\ Len(last.res.sent[1].params) = Len(LastTarget.params)
        /\ \A i \in 1..Len(LastLink.search_params) :
              IF LastLink.search_params[i].tag = "Name"
              THEN /\ ColumnIndex(LastRow, LastLink.search_params[i].col) # 0
                   /\ LastCell(i).ty \in {"text", "int4"}
                   /\ last.res.sent[1].params[i].ty =
                         (IF LastCell(i).ty = "text" THEN "Option<String>" ELSE "Option<i32>")
                   /\ last.res.sent[1].params[i].v = LastCell(i).raw
              ELSE last.res.sent[1].params[i].ty =
                      (IF LastTarget.params[i].ty = Some(Integer) THEN "i32"
                       ELSE IF LastTarget.params[i].ty = Some(TextArray) THEN "Vec<String>"
                       ELSE "String")

\* The link customer of order, search_params [customer_id], is followed from
\* a row whose int4 customer_id is 42: the bound parameters are exactly [42].
C9_Witness ==
    /\ last.op = "on_pick_link"
    /\ last.resource_id = "order"
    /\ last.name = "customer"
    /\ LastRow = RowPlain
    /\ last.res.sent = <<DbCall(NavCatalog["customer"].search["by_id"].query,
                                <<Bound("Option<i32>", Some(42))>>)>>

\* The title item of link expression i: the decoded cell of a bare column,
\* the path, "=" and the decoded cell of a JSONPath expression.
TitleItem(i) ==
    IF LastLink.search_params[i].tag = "Name"
    THEN to_column(LastRow, ColumnIndex(LastRow, LastLink.search_params[i].col))
    ELSE StrOf(LastLink.search_params[i].path) \o "="
         \o to_column(LastRow, ColumnIndex(LastRow, LastLink.search_params[i].col))

\* C10: the title on_pick_link_helper returns is the display name of the
\* source resource, " (", the items of the link expressions in order
\* separated by ", ", ") → " and the name of the link; it is the title of the
\* result table pushed on the history.
C10_LinkTitle ==
    (last.op = "on_pick_link" /\ last.res.st = "ok") =>
        /\ Len(LastLink.search_params) \in {1, 2}
        /\ Len(LastLink.search_params) = 1 =>
              last.res.title = resources[last.resource_id].name \o " (" \o TitleItem(1)
                               \o ") → " \o last.name
        /\ Len(LastLink.search_params) = 2 =>
              last.res.title = resources[last.resource_id].name \o " (" \o TitleItem(1)
                               \o ", " \o TitleItem(2) \o ") → " \o last.name
        /\ history[Len(history)].title = last.res.title

\* One bare parameter with value 42 on resource order and link customer.
C10_Witness ==
    /\ last.op = "on_pick_link"
    /\ last.res.st = "ok"
    /\ last.res.title = "order (42) → customer"
    /\ Top.view = "query_results"
    /\ Top.of.title = "order (42) → customer"

\* C11: when the link tags of order, whose one expression is the JSONPath pair
\* (payload, $.tags) and whose target parameter has type text[], is followed
\* from a row whose payload holds {"tags": ["a","b"]}, the query is sent with
\* the one bound parameter ["a","b"], a text array.
C11_TagsPathBindsTextArray ==
    (last.op = "on_pick_link" /\ last.name = "tags" /\ LastRow = RowTags) =>
        /\ Len(last.res.sent) = 1
        /\ Len(last.res.sent[1].params) = 1
        /\ last.res.sent[1].params[1].ty = "Vec<String>"
        /\ last.res.sent[1].params[1].v = <<"a", "b">>

\* C12: for every array type, sql_value_from_json_slice given any sequence of
\* nodes, the empty one included, returns either Ok with an array of as many
\* elements as there are nodes or an error about the first node that does not
\* convert to the element type; it does not fail in any other way.
C12_ArrayConversionTotal ==
    (cinput.op = "sql_value_from_json_slice" /\ cinput.ty \in ArrayTypes) =>
        LET bad == {i \in 1..Len(cinput.vals) :
                       JsonNarrow(cinput.vals[i], ElemType(cinput.ty), "array element").st # "ok"}
        IN  /\ coutput.st \in {"ok", "err"}
            /\ bad = {} => (coutput.st = "ok" /\ Len(coutput.v[1]) = Len(cinput.vals))
            /\ bad # {} =>
                  /\ coutput.st = "err"
                  /\ coutput.arg = <<cinput.vals[CHOOSE i \in bad : \A j \in bad : i <= j]>>

\* The numbers an i16 and an i32 hold, said on the two limbs of the number.
InI16(w) == (w.hi = 0 /\ w.lo <= I16Max) \/ (w.hi = -1 /\ w.lo >= Limb + I16Min)
InI32(w) == w.hi >= I16Min /\ w.hi <= I16Max
InTarget(w, ty) == IF ty = "int2" THEN InI16(w) ELSE InI32(w)

\* C13: sql_value_from_json_slice to int2, int4 or int4[] returns an error
\* whenever a JSON integer it is given is out of the range of the target; when
\* it returns Ok, every bound integer is the JSON number itself.
C13_IntegerOverflowIsError ==
    (cinput.op = "sql_value_from_json_slice" /\ cinput.ty \in {"int2", "int4", "int4[]"}) =>
        /\ (\E i \in 1..Len(cinput.vals) :
               /\ cinput.vals[i].k = "int"
               /\ ~InTarget(cinput.vals[i].n, ElemType(cinput.ty))) => coutput.st = "err"
        /\ (coutput.st = "ok" /\ cinput.ty # "int4[]") =>
              WideOf(coutput.v[1]) = cinput.vals[1].n
        /\ (coutput.st = "ok" /\ cinput.ty = "int4[]") =>
              \A i \in 1..Len(cinput.vals) : WideOf(coutput.v[1][i]) = cinput.vals[i].n

\* The number 2^31 is converted to int4: the result is the overflow error.
C13_Witness ==
    /\ cinput.op = "sql_value_from_json_slice"
    /\ cinput.ty = "int4"
    /\ cinput.vals = <<JInt(Wide(I16Max + 1, 0))>>
    /\ coutput.st = "err"
    /\ coutput.msg = "value overflows target type"

\* The commas of a text, and its k-th piece: what lies between the comma
\* before (or the start) and the comma after (or the end).
CommasOf(text) == {i \in 1..Len(text) : text[i] = ","}

CutAt(text, k) ==
    IF k = 0 THEN 0
    ELSE IF k > Cardinality(CommasOf(text)) THEN Len(text) + 1
    ELSE CHOOSE i \in CommasOf(text) : Cardinality({j \in CommasOf(text) : j < i}) = k - 1

PieceOf(text, k) == SubSeq(text, CutAt(text, k - 1) + 1, CutAt(text, k) - 1)

\* C14: for every array type, sql_value_from_string returns, when every piece
\* between the commas parses as the element type, the array of the parsed
\* pieces in the order of the text, one more element than there are commas;
\* when some piece does not parse it returns an error and no array.
C14_SplitOnCommas ==
    (cinput.op = "sql_value_from_string" /\ cinput.ty \in ArrayTypes) =>
        LET n == Cardinality(CommasOf(cinput.text)) + 1
        IN  IF \A k \in 1..n : ParseScalar(PieceOf(cinput.text, k), ElemType(cinput.ty)).ok
            THEN /\ coutput.st = "ok"
                 /\ Len(coutput.v[1]) = n
                 /\ \A k \in 1..n :
                       coutput.v[1][k] =
                          ParseScalar(PieceOf(cinput.text, k), ElemType(cinput.ty)).v[1]
            ELSE /\ coutput.st = "err"
                 /\ coutput.v = <<>>

\* "a,b,c" converted to text[] gives the three elements a, b, c.
C14_Witness ==
    /\ cinput.op = "sql_value_from_string"
    /\ cinput.ty = "text[]"
    /\ cinput.text = <<"a", ",", "b", ",", "c">>
    /\ coutput.st = "ok"
    /\ coutput.v = <<<<<<"a">>, <<"b">>, <<"c">>>>>>

(***************************************************************************)
(* Properties of decoding.                                                 *)
(***************************************************************************)
\* The column types SQLValueAsString has a decode rule for.
DecodableTypes == {"bool", "int2", "int4", "int8", "jsonb", "text", "text[]", "timestamptz"}

RowWithout(row, i) == SubSeq(row, 1, i - 1) \o SubSeq(row, i + 1, Len(row))

MaxColumns == 2

ColumnTypes == {"bool", "int2", "int4", "int8", "json", "jsonb", "text", "text[]",
                "timestamptz", "uuid"}

SampleValue(ty) ==
    CASE ty = "bool" -> TRUE
      [] ty \in {"int2", "int4", "int8"} -> -5
      [] ty \in {"json", "jsonb"} -> JNull
      [] ty = "text" -> "hi"
      [] ty = "text[]" -> <<"a", "b">>
      [] ty = "timestamptz" -> TimestampLit
      [] ty = "uuid" -> UuidLit

DecodeCells ==
    {Cell("c", ty, None) : ty \in ColumnTypes}
        \cup {Cell("c", ty, Some(SampleValue(ty))) : ty \in ColumnTypes}

InitDecode ==
    /\ resources = <<>>
    /\ vresult = NoResult
    /\ cinput = NoCoercion
    /\ coutput = NoCoercion
    /\ history = NoUi.history
    /\ layers = NoUi.layers
    /\ status = NoUi.status
    /\ last = NoLast

\* Every cell of a row is rendered with to_column.
RenderRow ==
    /\ cinput = NoCoercion
    /\ \E row \in SeqsUpTo(DecodeCells, MaxColumns) :
          /\ cinput' = CoercionInput("to_column", <<>>, row, "")
          /\ coutput' = COk("Vec<String>", [i \in 1..Len(row) |-> to_column(row, i)])
    /\ UNCHANGED <<resources, vresult, history, layers, status, last>>

NextDecode == RenderRow

SpecDecode == InitDecode /\ [][NextDecode]_vars

\* C16: a NULL cell of a column of type bool, int2, int4, int8, jsonb, text,
\* text[] or timestamptz is rendered as "<NULL>".
C16_NullDecodesToSentinel ==
    cinput.op = "to_column" =>
        \A i \in 1..Len(cinput.vals) :
            (cinput.vals[i].raw = None /\ cinput.vals[i].ty \in DecodableTypes) =>
                coutput.v[1][i] = "<NULL>"

\* A row of a NULL jsonb cell and a NULL timestamptz cell.
C16_Witness ==
    /\ cinput.op = "to_column"
    /\ cinput.vals = <<Cell("c", "jsonb", None), Cell("c", "timestamptz", None)>>
    /\ coutput.v = <<<<"<NULL>", "<NULL>">>>>

(***************************************************************************)
(* Properties of navigation.                                               *)
(***************************************************************************)
TopRoute == history[Len(history)]

\* The view a route mounts.
ViewOf(route) ==
    CASE route.route = "ResourcePicker" -> "resource_picker"
      [] route.route = "SearchPicker" -> "search_picker"
      [] route.route = "Query" -> "query"
      [] route.route = "QueryResults" -> "query_results"

\* The layer at the bottom of the stack is the view of the route on top of the
\* history, built from the data of that route.
MountedIsTop ==
    (status = "running" /\ history # <<>>) =>
        /\ layers # <<>>
        /\ layers[1].view = ViewOf(TopRoute)
        /\ TopRoute.route # "ResourcePicker" => layers[1].of = TopRoute
        /\ \A i \in 2..Len(layers) : layers[i].view \in {"link_picker", "row_view", "error"}

\* A step changes the history by one push or one pop or not at all; a push
\* leaves the routes already there beneath the new one; a pop removes the top
\* route only, sends no query and, when a route is left, mounts that route
\* from the data the history holds for it.
PushOrPop ==
    /\ \/ history' = history
       \/ Len(history') = Len(history) + 1 /\ Front(history') = history
       \/ /\ history # <<>>
          /\ history' = Front(history)
          /\ last'.res.sent = <<>>
          /\ history' # <<>> =>
                /\ status' = "running"
                /\ layers' = <<mount(resources, history'[Len(history')])>>
                /\ layers'[1].of.rows = history[Len(history) - 1].rows

\* C17: every step of the navigation is a push that keeps the routes pushed
\* before beneath the new one, a pop that removes the top route only and
\* mounts the one beneath from its stored data without a query, or leaves the
\* history alone; and in every state the mounted route is the top of the
\* history.
C17_HistoryIsAStack == []MountedIsTop /\ [][PushOrPop]_vars

\* Back from the results of a link to the result table beneath, which shows
\* the rows it was pushed with.
C17_Witness ==
    /\ last.op = "pop"
    /\ status = "running"
    /\ Len(history) = MaxHistory - 1
    /\ Top.view = "query_results"
    /\ Top.of = TopRoute
    /\ TopRoute.rows # <<>>

\* What Router::pop does to status on the history h.
PopQuits(h) == RouterPop(resources, h, <<>>).status = "quit"

\* A step that pops ends the session exactly when it leaves no route.
PopEndsAtBottom ==
    (last'.op = "pop") => (status' = "quit" <=> history' = <<>>)

\* Router::pop on the history, on each of its prefixes and on the empty
\* history quits exactly when no route is left beneath the one removed.
PopOfAnyHistory ==
    \A n \in 0..Len(history) :
        PopQuits(SubSeq(history, 1, n)) <=> (n <= 1)

\* C18: the navigation starts with the resource picker alone on the history;
\* a pop ends the session if and only if it leaves no route on the history,
\* the pop of an empty history included.
C18_PopEndsSessionAtBottom ==
    /\ history = <<RouteResourcePicker>>
    /\ [][PopEndsAtBottom]_vars
    /\ []PopOfAnyHistory

\* Esc on the resource picker: the history is empty and the session is over.
C18_Witness ==
    /\ last.op = "pop"
    /\ history = <<>>
    /\ status = "quit"

\* A step in which db.query is called is the Search button pressed on the
\* parameter form or a link picked in the link picker; when the helper
\* returns Ok the step ends on a result table.
QueryOnlyOnSubmitOrLink ==
    (last'.res.sent # <<>>) =>
        /\ last'.op \in {"on_query", "on_pick_link"}
        /\ Len(last'.res.sent) = 1
        /\ last'.op = "on_query" => Top.view = "query"
        /\ last'.op = "on_pick_link" => Top.view = "link_picker"
        /\ last'.res.st = "ok" => layers'[Len(layers')].view = "query_results"

\* C19: db.query is called only in the step that submits the parameter form
\* and in the step that picks a link; picking a resource or a search, going
\* back, opening the link picker or the row view, closing an overlay and
\* editing call it never.
C19_QueriesOnlyFromFormAndLink == [][QueryOnlyOnSubmitOrLink]_vars

\* A link picked: its query was sent and its result table is shown.
C19_Witness ==
    /\ last.op = "on_pick_link"
    /\ Len(last.res.sent) = 1
    /\ last.res.st = "ok"
    /\ Top.view = "query_results"
    /\ Len(history) = MaxHistory

\* The error dialog of the step just taken.
ErrorDialog == build_query_error(last'.res.msg)

\* A failed search: the history is the one before, and the layers are the ones
\* before, the form with its field texts among them, with the error dialog on
\* top, so that popping the dialog gives the layers before.
FailedSearchKeepsForm ==
    (last'.op = "on_query" /\ last'.res.st = "err") =>
        /\ history' = history
        /\ status' = "running"
        /\ Top.view = "query"
        /\ layers' = Append(layers, ErrorDialog)
        /\ layers'[Len(layers') - 1].fields = Top.fields
        /\ pop_layer(layers') = layers

\* A failed link: the history, and so the rows of the result route on top of
\* it, are the ones before; the link picker is closed and the error dialog
\* lies on the result table the row was picked in.
FailedLinkKeepsSource ==
    (last'.op = "on_pick_link" /\ last'.res.st = "err") =>
        /\ history' = history
        /\ status' = "running"
        /\ Top.view = "link_picker"
        /\ layers' = Append(Front(layers), ErrorDialog)
        /\ layers'[Len(layers') - 1].view = "query_results"
        /\ layers'[Len(layers') - 1].of = TopRoute
        /\ \E i \in 1..Len(TopRoute.rows) : TopRoute.rows[i] = last'.row[1]

\* The OK button of the error dialog pops the dialog and nothing else.
DismissReturns ==
    (last'.op = "close" /\ Top.view = "error") =>
        /\ history' = history
        /\ layers' = Front(layers)

\* C20: a search that fails, in a conversion or in the database, leaves the
\* history unchanged and the form mounted with its texts under an error dialog
\* whose dismissal gives back the form; a link that fails leaves the history
\* and the row it was picked on unchanged.
C20_FailureLeavesNavigationUnchanged ==
    [][FailedSearchKeepsForm /\ FailedLinkKeepsSource /\ DismissReturns]_vars

\* A search failed on a text that was typed: the dialog lies on the form,
\* which still holds the text.
C20_Witness ==
    /\ last.op = "on_query"
    /\ last.res.st = "err"
    /\ Len(layers) = 2
    /\ Top.view = "error"
    /\ layers[1].view = "query"
    /\ \E i \in 1..Len(layers[1].fields) : layers[1].fields[i].content = <<"4", "x">>

\* The link followed in the step just taken.
FollowedLink == resources[last'.resource_id].links[last'.name]

\* A link followed with success pushes a result route of the target resource.
FollowedLinkPushesTarget ==
    (last'.op = "on_pick_link" /\ last'.res.st = "ok") =>
        /\ history' = Append(history, history'[Len(history')])
        /\ history'[Len(history')].route = "QueryResults"
        /\ history'[Len(history')].resource_id = FollowedLink.kind
        /\ history'[Len(history')].rows = last'.res.rows
        /\ layers'[1].of.resource_id = FollowedLink.kind

\* The link picker opened on a result table lists the links of the resource
\* of the route on top of the history.
PickerOffersLinksOfRoute ==
    (status = "running" /\ layers # <<>> /\ Top.view = "link_picker") =>
        /\ TopRoute.route = "QueryResults"
        /\ Top.of.resource_id = TopRoute.resource_id
        /\ Top.items = {<<l, l>> : l \in DOMAIN resources[TopRoute.resource_id].links}

\* C21: the result table a followed link pushes belongs to link.kind, and the
\* links offered on its rows are those of link.kind, not of the resource the
\* link was picked on.
C21_FollowedLinkOwnsTarget ==
    [][FollowedLinkPushesTarget]_vars /\ []PickerOffersLinksOfRoute

\* The link picker is open on a table reached by a link from a table of
\* another resource, whose links differ.
C21_Witness ==
    /\ Len(history) >= 2
    /\ Top.view = "link_picker"
    /\ history[Len(history) - 1].route = "QueryResults"
    /\ history[Len(history) - 1].resource_id # TopRoute.resource_id
    /\ DOMAIN resources[history[Len(history) - 1].resource_id].links
          # DOMAIN resources[TopRoute.resource_id].links

\* C22: the outcome of validate_resources is the same under every iteration
\* order of the resource map and of the link maps: Ok under all of them, or
\* the same error under all of them.
C22_ValidationOrderIndependent ==
    Validated =>
        \A rorder \in Perms(DOMAIN resources) : \A lorder \in LinkOrders(resources) :
            validate_resources(resources, rorder, lorder) = vresult

\* The scalar types whose parser takes no empty text.
EmptyRefusingTypes == {"int2", "int4", "int8", "float4", "float8", "uuid", "timestamptz"}

\* C23: sql_value_from_string of the empty text to int2, int4, int8, float4,
\* float8, uuid or timestamptz is an error and carries no value; so is the
\* integer parameter of on_query_helper.
C23_EmptyTextToScalarIsError ==
    /\ (/\ cinput.op = "sql_value_from_string"
        /\ cinput.text = <<>>
        /\ cinput.ty \in EmptyRefusingTypes)
          => /\ coutput.st = "err"
             /\ coutput.v = <<>>
             /\ coutput.msg = "error parsing value as " \o cinput.ty
    /\ QueryParamValue(SearchParam("id", Some(Integer)), <<>>).st = "err"
    /\ QueryParamValue(SearchParam("id", Some(Integer)), <<>>).v = <<>>

\* The empty text was converted to int4 and refused.
C23_Witness ==
    /\ cinput.op = "sql_value_from_string"
    /\ cinput.text = <<>>
    /\ cinput.ty = "int4"
    /\ coutput.st = "err"

\* The messages of the expect calls on catalog lookups.
LookupPanics ==
    {"invalid resource id", "invalid search id", "invalid link name", "invalid link kind",
     "invalid link search name"}

\* The lookups of on_query_helper for the search just run succeed, and the
\* form gave one text for each parameter of the search.
SearchLookupsSucceed ==
    (last.op = "on_query") =>
        /\ last.resource_id \in DOMAIN resources
        /\ last.name \in DOMAIN resources[last.resource_id].search
        /\ Len(last.strs) = Len(resources[last.resource_id].search[last.name].params)

\* The lookups of on_pick_link_helper for the link just picked succeed, and
\* the link has one expression for each parameter of its target search.
LinkLookupsSucceed ==
    (last.op = "on_pick_link") =>
        /\ last.resource_id \in DOMAIN resources
        /\ last.name \in DOMAIN resources[last.resource_id].links
        /\ LastLink.kind \in DOMAIN resources
        /\ LastLink.search \in DOMAIN resources[LastLink.kind].search
        /\ Len(LastLink.search_params)
              = Len(resources[LastLink.kind].search[LastLink.search].params)

\* C24: once validate_resources has returned Ok, no handler fails in a lookup
\* of a resource, a search, a link, the kind of a link or the search of a
\* link, every route of the history names a resource of the catalog, and the
\* zip over the expressions of a link and the parameters of its target search
\* drops no element.
C24_ValidatedLookupsSucceed ==
    (status # "idle" /\ vresult.ok) =>
        /\ last.res.msg \notin LookupPanics
        /\ status = "panicked" => last.res.st = "panic"
        /\ \A i \in 1..Len(history) :
              history[i].route # "ResourcePicker" => ~MountPanics(resources, history[i])
        /\ SearchLookupsSucceed
        /\ LinkLookupsSucceed

\* A link with two expressions was followed to its search of two parameters.
C24_Witness ==
    /\ last.op = "on_pick_link"
    /\ last.res.st = "ok"
    /\ Len(LastLink.search_params) = 2
    /\ Len(last.res.sent[1].params) = 2

Overlays == {"link_picker", "row_view", "error"}

\* The layer is the view of the route (a form may have been typed in since).
IsLayerOf(layer, route) ==
    /\ layer.view = ViewOf(route)
    /\ route.route # "ResourcePicker" => layer.of = route

\* One layer for the route on top of the history, built from that route, and
\* at most one overlay on it.
OneRouteLayerOneOverlay ==
    (status = "running" /\ history # <<>>) =>
        /\ Len(layers) \in {1, 2}
        /\ IsLayerOf(layers[1], TopRoute)
        /\ Len(layers) = 2 => layers[2].view \in Overlays

\* A step that changes the history, that is a Router::push or a Router::pop,
\* starts with the layer of the mounted route alone, or in on_pick_link with
\* the link picker that the handler closes before it pushes; it ends with the
\* layer of the new route alone, so what was unmounted is the layer of the
\* route mounted before and nothing else.
RouterRunsWithoutOverlay ==
    (history' # history) =>
        /\ \/ Len(layers) = 1
           \/ /\ last'.op = "on_pick_link"
              /\ Len(layers) = 2
              /\ Top.view = "link_picker"
        /\ IsLayerOf(layers[1], TopRoute)
        /\ layers' = IF history' = <<>> THEN <<>>
                     ELSE <<mount(resources, history'[Len(history')])>>

\* C25: the layers are the view of the route on top of the history and at
\* most one overlay (link picker, row view, error dialog); Router::push and
\* Router::pop run with no overlay on top and unmount the layer of the
\* mounted route only.
C25_OneRouteLayerAtMostOneOverlay ==
    []OneRouteLayerOneOverlay /\ [][RouterRunsWithoutOverlay]_vars

\* A link was followed from the link picker: the picker and the table it lay
\* on are gone, the table of the target is the one layer.
C25_Witness ==
    /\ last.op = "on_pick_link"
    /\ last.res.st = "ok"
    /\ Len(history) >= 4
    /\ Len(layers) = 1
    /\ Top.view = "query_results"

(***************************************************************************)
(* The mutexes: Router.data (the history) and AppDataPtr (catalog and      *)
(* connection).  A handler is the sequence of its lock() calls and of the  *)
(* drops of the guards, in program order.                                  *)
(***************************************************************************)
LockEv(m) == [ev |-> "lock", m |-> m]
DropEv(m) == [ev |-> "drop", m |-> m]

\* A mutant: the guard of the block is never dropped.
ScopedLeaked(m) == <<LockEv(m)>>

\* { let guard = m.lock().unwrap(); ... }: locked and dropped with no call
\* that locks in between.
Scoped(m) == <<LockEv(m), DropEv(m)>>

\* Route::mount: the build_* function of the view reads the catalog in a
\* block of its own (build_resource_picker, build_search_picker, build_query);
\* build_query_results only moves the pointer into its callbacks.  The
\* callbacks a mount installs are not called by it.
MountLocks(route) ==
    IF route.route = "QueryResults" THEN <<>> ELSE Scoped("app_data")

\* Route::unmount: siv.pop_layer().
UnmountLocks(route) == <<>>

\* Router::push: ctx is held from the first line to the return.
RouterPushLocks(h, route) ==
    <<LockEv("router")>>
        \o (IF h # <<>> THEN UnmountLocks(h[Len(h)]) ELSE <<>>)
        \o MountLocks(route)
        \o <<DropEv("router")>>

\* Router::pop, likewise.
RouterPopLocks(h) ==
    <<LockEv("router")>>
        \o (IF h # <<>> THEN UnmountLocks(h[Len(h)]) ELSE <<>>)
        \o (IF Front(h) # <<>> THEN MountLocks(h[Len(h) - 1]) ELSE <<>>)
        \o <<DropEv("router")>>

\* on_query_helper: the block that clones the resource; after the conversions
\* the guard held over db.query, dropped at the return.
OnQueryHelperLocks(res) ==
    Scoped("app_data") \o (IF res.sent # <<>> THEN Scoped("app_data") ELSE <<>>)

\* on_query: its own block, the helper, then router.push in the Ok arm.
OnQueryLocks(h, res, route) ==
    Scoped("app_data") \o OnQueryHelperLocks(res)
        \o (IF res.st = "ok" THEN RouterPushLocks(h, route) ELSE <<>>)

\* on_pick_link_helper: the blocks that clone the resource and the target
\* resource; the guard held over db.query.
OnPickLinkHelperLocks(res) ==
    Scoped("app_data") \o Scoped("app_data")
        \o (IF res.sent # <<>> THEN Scoped("app_data") ELSE <<>>)

\* on_pick_link: pop_layer, the helper, then router.push in the Ok arm.
OnPickLinkLocks(h, res, route) ==
    OnPickLinkHelperLocks(res)
        \o (IF res.st = "ok" THEN RouterPushLocks(h, route) ELSE <<>>)

\* on_show_links: build_link_picker clones the resource in a block.
OnShowLinksLocks == Scoped("app_data")

\* The lock events of the handler of the step.
StepLocks ==
    CASE last'.op \in {"submit_resource", "submit_search"} ->
            RouterPushLocks(history, history'[Len(history')])
      [] last'.op = "on_query" ->
            OnQueryLocks(history, last'.res, history'[Len(history')])
      [] last'.op = "on_pick_link" ->
            OnPickLinkLocks(history, last'.res, history'[Len(history')])
      [] last'.op = "pop" -> RouterPopLocks(history)
      [] last'.op = "show_links" -> OnShowLinksLocks
      [] OTHER -> <<>>

\* The mutexes held before the i-th event of a trace.
HeldBefore(trace, i) ==
    {m \in {"router", "app_data"} :
        Cardinality({j \in 1..(i - 1) : trace[j] = LockEv(m)})
            > Cardinality({j \in 1..(i - 1) : trace[j] = DropEv(m)})}

\* No mutex is locked while held; the router mutex is not locked while the
\* application data are held; every guard is dropped when the handler returns.
LockDiscipline(trace) ==
    /\ \A i \in 1..Len(trace) :
          trace[i].ev = "lock" =>
              /\ trace[i].m \notin HeldBefore(trace, i)
              /\ trace[i].m = "router" => "app_data" \notin HeldBefore(trace, i)
    /\ HeldBefore(trace, Len(trace) + 1) = {}

\* The handler of the step nests the two mutexes, router outside.
NestsRouterThenAppData(trace) ==
    \E i \in 1..Len(trace) :
        trace[i] = LockEv("app_data") /\ "router" \in HeldBefore(trace, i)

StepKeepsLockDiscipline == LockDiscipline(StepLocks)

\* C26: no handler locks a mutex it holds, the two mutexes are nested only as
\* router then application data, and a mount or unmount under Router::push or
\* Router::pop does not lock the router again; every handler returns with no
\* mutex held, so the event loop never blocks on its own locks.
C26_NoSelfDeadlock == [][StepKeepsLockDiscipline]_vars

\* Esc on a result table returned to the form: Router::pop mounted the form,
\* which read the catalog, under the router mutex.
C26_Witness ==
    /\ last.op = "pop"
    /\ layers # <<>>
    /\ Top.view = "query"
    /\ NestsRouterThenAppData(RouterPopLocks(Append(history, RouteResourcePicker)))

\* The i-th expression of the link just picked is a bare column that the row
\* has not, or has with a type other than TEXT and INT4.
BadBareColumn(i) ==
    /\ LastLink.search_params[i].tag = "Name"
    /\ \/ ColumnIndex(LastRow, LastLink.search_params[i].col) = 0
       \/ LastCell(i).ty \notin {"text", "int4"}

\* The i-th expression is a bare column of type TEXT or INT4 of the row.
GoodBareColumn(i) ==
    /\ LastLink.search_params[i].tag = "Name"
    /\ ColumnIndex(LastRow, LastLink.search_params[i].col) # 0
    /\ LastCell(i).ty \in {"text", "int4"}

\* C27: a bare-column parameter on a column that is missing or of a type
\* other than TEXT and INT4 binds nothing and no query is sent; when nothing
\* before it failed the handler does not return at all (expect, todo!): there is
\* no Err to show, no error dialog, no value put in its place.
C27_UnsupportedBareColumnIsFatal ==
    (last.op = "on_pick_link") =>
        \A i \in 1..Len(LastLink.search_params) :
            BadBareColumn(i) =>
                /\ last.res.sent = <<>>
                /\ last.res.st \in {"panic", "err"}
                /\ last.res.rows = <<>>
                /\ (\A j \in 1..(i - 1) : GoodBareColumn(j)) =>
                      /\ last.res.st = "panic"
                      /\ last.res.msg = IF ColumnIndex(LastRow, LastLink.search_params[i].col) = 0
                                        THEN "invalid column name" ELSE "not yet implemented"
                      /\ status = "panicked"
                      /\ \A k \in 1..Len(layers) : layers[k].view # "error"

\* A link on customer_id was picked on a row whose customer_id is a bool.
C27_Witness ==
    /\ last.op = "on_pick_link"
    /\ last.name = "customer"
    /\ LastRow = RowOdd
    /\ BadBareColumn(1)
    /\ status = "panicked"

\* The navigation after k back actions from the history h with the layers ls.
RECURSIVE PopTimes(_, _, _)
PopTimes(h, ls, k) ==
    IF k = 0 THEN Nav(h, ls, "running")
    ELSE LET before == PopTimes(h, ls, k - 1)
         IN  IF before.status # "running" THEN before
             ELSE RouterPop(resources, before.history, before.layers)

\* With no overlay open and n routes in the history, k back actions leave
\* n - k routes with the view of the one on top mounted, and the n-th ends
\* the session.
BackActionsCountDown ==
    (status = "running" /\ Len(layers) = 1) =>
        \A k \in 0..Len(history) :
            /\ PopTimes(history, layers, k).history = SubSeq(history, 1, Len(history) - k)
            /\ PopTimes(history, layers, k).status
                  = IF k = Len(history) THEN "quit" ELSE "running"
            /\ (0 < k /\ k < Len(history)) =>
                  PopTimes(history, layers, k).layers
                      = <<mount(resources, history[Len(history) - k])>>

\* The back action taken in a step: one route less, no query, no overlay
\* left, the session over exactly when the last route went.
BackActionShortens ==
    (last'.op = "pop") =>
        /\ Len(layers) = 1
        /\ history' = SubSeq(history, 1, Len(history) - 1)
        /\ Len(history') = Len(history) - 1
        /\ last'.res.sent = <<>>
        /\ status' = IF Len(history) = 1 THEN "quit" ELSE "running"
        /\ status' = "running" => Len(layers') = 1

\* C28: with no overlay open and n routes in the history every Esc removes
\* exactly one route, sends no query, never adds a route, and the n-th Esc
\* ends the session.
C28_BackActionsTerminate == []BackActionsCountDown /\ [][BackActionShortens]_vars

\* Esc from the deepest history of the model: one route less, still running.
C28_Witness ==
    /\ last.op = "pop"
    /\ status = "running"
    /\ Len(history) = MaxHistory - 1
    /\ Len(layers) = 1

\* The links of the resource the link picker on top was opened for.
PickerLinks == resources[Top.of.resource_id].links

\* C29: the link picker lists every link of the resource, with or without an
\* "if" and whatever the row holds; a link with an "if" that is picked is
\* resolved as any other.
C29_ConditionNeverHidesLink ==
    /\ (status = "running" /\ layers # <<>> /\ Top.view = "link_picker") =>
          /\ Top.items = {<<l, l>> : l \in DOMAIN PickerLinks}
          /\ \A l \in DOMAIN PickerLinks :
                PickerLinks[l].condition # None => <<l, l>> \in Top.items
    /\ (last.op = "on_pick_link" /\ LastLink.condition # None) =>
          last.res = on_pick_link_helper(resources, last.resource_id, last.name, LastRow,
                                         IF last.res.st = "ok" THEN DbRows(last.res.rows)
                                         ELSE DbErr)

\* The picker is open on a row whose payload is NULL and offers the link
\* whose "if" compares a node of the payload.
C29_Witness ==
    /\ status = "running"
    /\ layers # <<>>
    /\ Top.view = "link_picker"
    /\ Top.row = Some(RowNulls)
    /\ Top.of.resource_id = "order"
    /\ PickerLinks["tagged"].condition # None
    /\ <<"tagged", "tagged">> \in Top.items

(***************************************************************************)
(* assign_shortcuts (src/tui.rs): one shortcut character for each label of *)
(* a picker.  A label is a sequence of characters; positions count from 0  *)
(* as enumerate() does.                                                    *)
(***************************************************************************)
MaxLabelLen == 3
MaxLabels == 2

\* A lowercase vowel, an uppercase vowel, a consonant in both cases, a space.
LabelChars == {"e", "O", "s", "S", " "}

is_alphabetic(c) == c # " "

\* c.to_lowercase().next()
to_lowercase(c) == CASE c = "O" -> "o" [] c = "S" -> "s" [] OTHER -> c

\* !matches!(c, 'a' | 'e' | 'i' | 'o' | 'u')
is_consonnant(c) == c \notin {"a", "e", "i", "o", "u"}

\* s.chars().enumerate()
Enumerate(s) == [i \in 1..Len(s) |-> <<i - 1, s[i]>>]

\* The three filters of the label, in the order of the chain.
word_starts(s) ==
    LET IsWordStart(e) ==
            /\ is_alphabetic(e[2])
            /\ e[1] = 0 \/ ~is_alphabetic(s[e[1]])
    IN  SelectSeq(Enumerate(s), IsWordStart)

consonnants(s) ==
    LET IsConsonnant(e) == is_alphabetic(e[2]) /\ is_consonnant(e[2])
    IN  SelectSeq(Enumerate(s), IsConsonnant)

all_alphas(s) ==
    LET IsAlpha(e) == is_alphabetic(e[2])
    IN  SelectSeq(Enumerate(s), IsAlpha)

\* The inner loop: the first candidate from the k-th on whose lowercase form
\* is not assigned.
RECURSIVE FirstFree(_, _, _)
FirstFree(cands, assigned, k) ==
    IF k > Len(cands) THEN None
    ELSE IF to_lowercase(cands[k][2]) \in assigned THEN FirstFree(cands, assigned, k + 1)
    ELSE Some(<<cands[k][1], to_lowercase(cands[k][2])>>)

\* The outer loop from the i-th label on.
RECURSIVE AssignFrom(_, _, _)
AssignFrom(strs, i, assigned) ==
    IF i > Len(strs) THEN <<>>
    ELSE LET s == strs[i]
             pick == FirstFree(word_starts(s) \o consonnants(s) \o all_alphas(s), assigned, 1)
         IN  IF pick = None THEN <<None>> \o AssignFrom(strs, i + 1, assigned)
             ELSE <<pick>> \o AssignFrom(strs, i + 1, assigned \cup {pick[1][2]})

assign_shortcuts(strs) == AssignFrom(strs, 1, {})

Labels == SeqsUpTo(LabelChars, MaxLabelLen)

LabelLists == SeqsUpTo(Labels, MaxLabels)

InitShortcuts ==
    /\ resources = <<>>
    /\ vresult = NoResult
    /\ cinput \in {CoercionInput("labels", <<>>, strs, "") : strs \in LabelLists}
    /\ coutput = NoCoercion
    /\ history = NoUi.history
    /\ layers = NoUi.layers
    /\ status = NoUi.status
    /\ last = NoUi.last

\* build_shortcut_select_view: assign_shortcuts on the labels of the view.
AssignShortcuts ==
    /\ cinput.op = "labels"
    /\ cinput' = [cinput EXCEPT !.op = "assign_shortcuts"]
    /\ coutput' = COk("Vec<Option<(usize, char)>>", assign_shortcuts(cinput.vals))
    /\ UNCHANGED <<resources, vresult, history, layers, status, last>>

NextShortcuts == AssignShortcuts

SpecShortcuts == InitShortcuts /\ [][NextShortcuts]_vars

(***************************************************************************)
(* The shortcuts, stated on the labels.                                    *)
(***************************************************************************)
Vowels == {"a", "e", "i", "o", "u"}

\* The letters of a label in lowercase.
LettersOf(s) == {to_lowercase(s[i]) : i \in {j \in 1..Len(s) : is_alphabetic(s[j])}}

\* The characters given to the labels before the i-th.
GivenBefore(res, i) == {res[j][1][2] : j \in {k \in 1..(i - 1) : res[k] # None}}

\* The positions (from 1) of a label in the order they are to be tried in:
\* the first letters of the words, the consonants, all the letters.
TryOrder(s) ==
    LET Pos == [i \in 1..Len(s) |-> i]
        Starts(i) == is_alphabetic(s[i]) /\ (i = 1 \/ ~is_alphabetic(s[i - 1]))
        Consonant(i) == is_alphabetic(s[i]) /\ to_lowercase(s[i]) \notin Vowels
        Letter(i) == is_alphabetic(s[i])
    IN  SelectSeq(Pos, Starts) \o SelectSeq(Pos, Consonant) \o SelectSeq(Pos, Letter)

\* The i-th shortcut is the first position of the try order whose letter is
\* not given yet, or None when there is none.
IsFirstFree(s, given, shortcut) ==
    LET order == TryOrder(s)
        free == {k \in 1..Len(order) : to_lowercase(s[order[k]]) \notin given}
    IN  IF free = {} THEN shortcut = None
        ELSE LET k == CHOOSE m \in free : \A n \in free : m <= n
             IN  shortcut = Some(<<order[k] - 1, to_lowercase(s[order[k]])>>)

\* C30: assign_shortcuts gives one entry for each label, in order; no
\* character is given to two labels; an entry (index, char) is the lowercase
\* of the letter at that index of its own label; the letter is the first one
\* not given yet in the order word-initial letters, consonants, all letters;
\* an entry is None only when every letter of the label is given already.
C30_AssignShortcuts ==
    (cinput.op = "assign_shortcuts") =>
        LET strs == cinput.vals
            res == coutput.v[1]
        IN  /\ Len(res) = Len(strs)
            /\ \A i, j \in 1..Len(res) :
                  (i # j /\ res[i] # None /\ res[j] # None) => res[i][1][2] # res[j][1][2]
            /\ \A i \in 1..Len(res) :
                  /\ res[i] # None =>
                        /\ res[i][1][1] \in 0..(Len(strs[i]) - 1)
                        /\ is_alphabetic(strs[i][res[i][1][1] + 1])
                        /\ res[i][1][2] = to_lowercase(strs[i][res[i][1][1] + 1])
                  /\ res[i] = None => LettersOf(strs[i]) \subseteq GivenBefore(res, i)
                  /\ IsFirstFree(strs[i], GivenBefore(res, i), res[i])

====
